---- MODULE Spec2Model ----
(***************************************************************************)
(* farrow-session: the session middleware (createFarrowSession), the       *)
(* cookie session parser and the encrypted cookie session store.           *)
(*                                                                         *)
(* JavaScript values are modelled as follows.  Scalars (SessionMeta,       *)
(* SessionInfo, SessionData) are strings, with "undefined" and "null" for  *)
(* the two JavaScript values of those names.  Objects and cookie values    *)
(* are records with a tag field t.  A request's farrow-pipeline container  *)
(* is modelled by the three per-request cells sessionMetaCtx, sessionCtx   *)
(* and sessionHeaderCtx.                                                   *)
(***************************************************************************)
EXTENDS Integers, Sequences, FiniteSets, TLC

\* ---- bounds -------------------------------------------------------------
\* identifiers ulid() mints in one behaviour
MaxIds == 2
\* lifecycle calls a handler issues in one request
MaxTasks == 1
\* clock ticks in one behaviour
MaxTicks == 1

\* ---- program constants --------------------------------------------------
oneMinute == 60
DefaultMaxAge == 30 * oneMinute * 1000
\* one clock tick: long enough for a session of the default max-age to expire
TickStep == DefaultMaxAge + 1

\* the request slots (farrow-pipeline containers)
Reqs == {1, 2}

Undef == "undefined"
Null == "null"

\* the identifiers ulid() mints, in the order it mints them
Ids == <<"id1", "id2", "id3", "id4", "id5", "id6">>
\* an identifier no ulid() call returns, presented by a client
ForgedId == "forged"
\* the value createSessionCtx was given
DefaultData == "ctxDefault"
\* the value the configured dataCreator returns
CreatedData == "created"
\* the values a handler writes with sessionCtx.set
HandlerData == {"written"}
\* the data of a JSON text one block of which was garbled within a string
GarbledData == "garbled"

sessionInfoKey == "sess:k"
sessionStoreKey == "sess:s"

\* ---- codec and cipher ---------------------------------------------------
Absent == [t |-> "absent"]
Garbage == [t |-> "garbage"]

\* the text a codec makes of a JSON text: the default base64 codec, the
\* tests' hex codec (Buffer.from(s, 'hex') accepts any string) and a codec
\* made of encodeURIComponent/decodeURIComponent (which throws URIError on
\* a malformed string)
Encoded(codec) ==
  IF codec = "base64" THEN "b64json"
  ELSE IF codec = "hex" THEN "hexjson"
  ELSE "urijson"

\* aes-256-cbc under the store key and the IV of sessionId, applied to the
\* JSON text of {...sessionData, _expires}
Encrypt(sessionId, sessionData, expires) ==
  [t |-> "enc", id |-> sessionId, data |-> sessionData, expires |-> expires]

\* an encrypted text with one character altered
Altered(v) == [v EXCEPT !.t = "alt"]

\* a decipher that rejects every text
DecryptableNever(sessionId, c) == FALSE

\* decipher.update/final plus JSON.parse succeed only on a text encrypted
\* under the same identifier
Decryptable(sessionId, c) == c.t = "enc" /\ c.id = sessionId

\* ---- store results ------------------------------------------------------
RNull == [t |-> "null"]
RUndef == [t |-> "undefined"]
RTrue == [t |-> "true"]
RPair(m, d) == [t |-> "pair", sessionMeta |-> m, sessionData |-> d]
\* the object JSON.parse yields for a decrypted store cookie
RObj(d, e) == [t |-> "obj", data |-> d, expires |-> e]

\* a falsiness test that takes null for a value
FalsyOnlyUndefined(res) == res.t = "undefined"

\* !result
Falsy(res) == res.t \in {"null", "undefined"}

\* a destructuring that names a field the result does not have
FieldSessionId(res) == Undef

\* const { sessionMeta, sessionData } = result
FieldSessionMeta(res) == IF res.t = "pair" THEN res.sessionMeta ELSE Undef
FieldSessionData(res) == IF res.t = "pair" THEN res.sessionData ELSE Undef

\* a check for undefined that is left out
HardFailureMissed(res) == FALSE

\* result === undefined: a hard failure
HardFailure(res) == res.t = "undefined"

\* a check that takes every defined result for a soft failure
SoftFailureAnyDefined(res) == res.t # "undefined"

\* result === null: a soft failure
SoftFailure(res) == res.t = "null"

\* a return that coerces every failure to false
RetCoerced(res) == IF res.t = "true" THEN "true" ELSE "false"

\* the value an async lifecycle operation returns for a store result
RetOf(res) == IF res.t = "true" THEN "true" ELSE res.t

\* ---- configuration ------------------------------------------------------
\* expiresOptions.time: absent, a number, or a function (with the value it
\* returns when the store is constructed)
NoTime == [t |-> "none", v |-> 0, w |-> 0]
NumTime(n) == [t |-> "number", v |-> n, w |-> n]
\* a function returning n when the store is constructed and l once the clock
\* has ticked
FunTime(n, l) == [t |-> "function", v |-> n, w |-> l]
TimeOptions == {NoTime}

\* a configuration with the parser's and the store's remaining options at
\* their defaults: the base64 codec, defaultCookieOptions, metas without
\* expireTime, a client that does not alter its cookies and a handler whose
\* response sets no cookie; tasks and ticks bound the handler's lifecycle
\* calls and the clock
Config(store, faults, autoSave, rolling, time, tasks) ==
  [store |-> store, faults |-> faults, autoSave |-> autoSave,
   rolling |-> rolling, time |-> time, tasks |-> tasks,
   codec |-> "base64", cookieMaxAge |-> DefaultMaxAge, httpOnly |-> TRUE,
   expireTime |-> 0, tamper |-> FALSE, ticks |-> MaxTicks,
   handlerCookie |-> FALSE]

\* the middleware configurations: the store is either a store known only by
\* the SessionStore contract (as the tests' hand-written stores), whose
\* methods may fail (faults) or all work, or the cookieSessionStore
Configs ==
  {Config("contract", TRUE, a, FALSE, NoTime, MaxTasks) : a \in BOOLEAN}
  \cup
  {Config("cookie", FALSE, a, ro, ti, MaxTasks) :
     a \in BOOLEAN, ro \in BOOLEAN, ti \in TimeOptions}

\* times to live: one already elapsed, one longer than two ticks of the
\* clock, and the tests' cookieOptions.maxAge and expireTime
ExpiredTTL == 0 - 1000
LongTTL == 2 * TickStep
QuarterHour == 15 * oneMinute * 1000
TwoHours == 2 * 60 * oneMinute * 1000
OptTimes ==
  {NoTime, NumTime(0), NumTime(ExpiredTTL), NumTime(LongTTL),
   FunTime(LongTTL, QuarterHour)}

\* the options of the cookie parser and the cookie store, one at a time,
\* under a handler that only responds: the store's time, rolling and
\* cookieOptions.maxAge (with one more tick of the clock, so that a get can
\* follow a get that followed the write); the parser's codec and the
\* store's cookieOptions.httpOnly; a client that
\* alters its store cookie; a hand-written store whose metas carry
\* expireTime; and a handler whose response writes the identity cookie's
\* name itself
OptTicks == MaxTicks + 1
OptConfigs ==
  {[Config("cookie", FALSE, TRUE, ro, ti, 0)
      EXCEPT !.cookieMaxAge = QuarterHour, !.ticks = OptTicks] :
     ro \in BOOLEAN, ti \in OptTimes}
  \cup
  {[Config("cookie", FALSE, TRUE, FALSE, NoTime, 0)
      EXCEPT !.codec = co, !.httpOnly = h] :
     co \in {"hex", "uri"}, h \in BOOLEAN}
  \cup
  {[Config("cookie", FALSE, TRUE, FALSE, NoTime, 0) EXCEPT !.tamper = TRUE]}
  \cup
  {[Config("contract", FALSE, FALSE, FALSE, NoTime, 0) EXCEPT !.expireTime = e] :
     e \in {0, TwoHours}}
  \cup
  {[Config("cookie", FALSE, a, FALSE, NoTime, 0) EXCEPT !.handlerCookie = TRUE] :
     a \in BOOLEAN}

\* the test's setup (cookie parser, cookie store, autoSave) with a handler
\* that issues one lifecycle call more, so that a call can follow another
SeqTasks == MaxTasks + 1
SeqConfigs ==
  {Config("cookie", FALSE, TRUE, FALSE, NoTime, SeqTasks)}

\* a hand-written store all of whose methods work, with autoSave
ConcConfigs ==
  {Config("contract", FALSE, TRUE, FALSE, NoTime, MaxTasks)}

VARIABLES
  cfg,               \* the SessionConfig, the store options and the number
                     \* of lifecycle calls the handler issues in a request
  now,               \* Date.now()
  nextId,            \* identifiers minted so far
  jar,               \* the client's cookies, as last set by a response
  opsBound,          \* the request whose closures sessionCtx's operations are
  pc,                \* each request's position in the middleware
  cookies,           \* each request's cookies
  local,             \* the middleware's local variables, per request
  sessionMetaCtx,    \* sessionMetaCtx, per container
  sessionCtx,        \* sessionCtx's value, per container
  sessionHeaderCtx,  \* sessionHeaderCtx, per container
  task,              \* the lifecycle calls of each request's handler
  seen,              \* what the handler saw in sessionCtx when invoked
  calls,             \* the SessionStore calls made for each request
  response           \* each request's final response

vars == <<cfg, now, nextId, jar, opsBound, pc, cookies, local,
          sessionMetaCtx, sessionCtx, sessionHeaderCtx, task, seen,
          calls, response>>

\* ---- cookieSessionParser ------------------------------------------------
\* a response mutation: Response.cookie(name, value, options)
Cookie(name, value, maxAge, expires, httpOnly) ==
  [name |-> name, value |-> value, maxAge |-> maxAge, expires |-> expires,
   httpOnly |-> httpOnly]

Empty == [t |-> "empty"]
NoExpires == 0 - 1

\* plainSessionMeta.expireTime ?? plainSessionMeta.expiresTime: the metas of
\* this model are identifiers; the expireTime their store attaches to each
\* is an option of the configuration, 0 (falsy, as undefined is) when the
\* metas carry none
ExpiresTimeOf(m) == cfg.expireTime

\* JSON.stringify followed by the codec in place (cookie.ts set)
EncodeMeta(m) == [t |-> Encoded(cfg.codec), v |-> m]

\* customCodec.decode throws on this cookie value
DecodeThrows(c) == cfg.codec = "uri" /\ c.t # Encoded("uri")

\* a decoder that yields null for every cookie value
DecodeInfoNever(c) == Null

\* the codec undone and JSON.parse applied; a value JSON.parse rejects
\* gives null (cookie.ts get)
DecodeInfo(c) == IF c.t = Encoded(cfg.codec) THEN c.v ELSE Null

\* sessionParser.get(requestInfo) throws: the codec is applied outside the
\* try block
ParserGetThrows(c) == c.k # Absent /\ DecodeThrows(c.k)

\* sessionParser.get(requestInfo)
ParserGet(c) == IF c.k = Absent THEN Null ELSE DecodeInfo(c.k)

\* sessionParser.set(plainSessionMeta): { ...options.cookieOptions,
\* ...expiresOptions } with expires: new Date(Number(expiresTime)) when the
\* meta carries one
ParserSet(m) ==
  IF ExpiresTimeOf(m) # 0
    THEN Cookie(sessionInfoKey, EncodeMeta(m), DefaultMaxAge, ExpiresTimeOf(m), TRUE)
    ELSE Cookie(sessionInfoKey, EncodeMeta(m), DefaultMaxAge, NoExpires, TRUE)

\* a removal written to the store's cookie name
ParserRemoveWrongKey(m) == Cookie(sessionStoreKey, Empty, 0 - 1, NoExpires, TRUE)

\* a removal that keeps the configured maxAge
ParserRemoveKeepsMaxAge(m) ==
  Cookie(sessionInfoKey, Empty, DefaultMaxAge, NoExpires, TRUE)

\* sessionParser.remove()
ParserRemove(m) == Cookie(sessionInfoKey, Empty, 0 - 1, NoExpires, TRUE)

\* ---- cookieSessionStore -------------------------------------------------
\* const maxAge = options.expiresOptions.time ? ... : options.cookieOptions.maxAge
\* evaluated when the store is constructed
maxAge ==
  IF cfg.time.t = "function" THEN cfg.time.v
  ELSE IF cfg.time.t = "number" /\ cfg.time.v # 0 THEN cfg.time.v
  ELSE cfg.cookieMaxAge

\* options.dataCreator(request, sessionData)
dataCreator(request, sessionData) == CreatedData

\* a store call's outcome: the value its promise resolves to and the
\* mutations it appends to sessionHeaderCtx while it runs
Outcome(res, muts) == [res |-> res, muts |-> muts]

\* a create that writes the store cookie as set does
CookieCreateSaving(request, sessionData) ==
  IF nextId < MaxIds
    THEN {Outcome(RPair(Ids[nextId + 1], dataCreator(request, sessionData)),
                  <<Cookie(sessionStoreKey,
                           Encrypt(Ids[nextId + 1],
                                   dataCreator(request, sessionData), now + maxAge),
                           maxAge, NoExpires, cfg.httpOnly)>>)}
    ELSE {}

\* cookieSessionStore.create: a new ulid and the created data; nothing is
\* written to sessionHeaderCtx
CookieCreate(request, sessionData) ==
  IF nextId < MaxIds
    THEN {Outcome(RPair(Ids[nextId + 1], dataCreator(request, sessionData)), <<>>)}
    ELSE {}

\* a set that leaves cookieOptions.maxAge in place
CookieSetConfiguredMaxAge(sessionId, sessionData) ==
  {Outcome(RTrue,
           <<Cookie(sessionStoreKey, Encrypt(sessionId, sessionData, now + maxAge),
                    cfg.cookieMaxAge, NoExpires, cfg.httpOnly)>>)}

CookieSet(sessionId, sessionData) ==
  {Outcome(RTrue,
           <<Cookie(sessionStoreKey, Encrypt(sessionId, sessionData, now + maxAge),
                    maxAge, NoExpires, cfg.httpOnly)>>)}

\* a destroy that emits nothing
CookieDestroySilent(sessionId) == {Outcome(RTrue, <<>>)}

CookieDestroy(sessionId) ==
  {Outcome(RTrue, <<Cookie(sessionStoreKey, Empty, 0 - 1, NoExpires, cfg.httpOnly)>>)}

\* what decipher.update/final and JSON.parse make of a store cookie value:
\* an exception, or the parsed object. A text encrypted under another
\* identifier is rejected. aes-256-cbc carries no authentication: of a
\* valid text with one character altered, the base64 decoder may yield the
\* same bytes (the last character's unused bits), the decipher may reject
\* the padding or JSON.parse the garbled text, or the garbled block may lie
\* within a string of the JSON text and parse
Thrown == [data |-> "thrown", expires |-> 0]
Decrypted(sessionId, v) ==
  IF Decryptable(sessionId, v)
    THEN {[data |-> v.data, expires |-> v.expires]}
  ELSE IF v.t = "alt" /\ v.id = sessionId
    THEN {Thrown, [data |-> v.data, expires |-> v.expires],
          [data |-> GarbledData, expires |-> v.expires]}
  ELSE {Thrown}

\* a get that never re-sets the session
AfterDecryptNoRolling(sessionId, decryptedData) ==
  IF decryptedData = Thrown THEN {Outcome(RNull, <<>>)}
  ELSE IF decryptedData.expires # 0 /\ decryptedData.expires < now
    THEN {Outcome(RNull, o.muts) : o \in CookieDestroy(sessionId)}
  ELSE {Outcome(RObj(decryptedData.data, decryptedData.expires), <<>>)}

\* cookieSessionStore.get from the catch clause on
AfterDecrypt(sessionId, decryptedData) ==
  IF decryptedData = Thrown THEN {Outcome(RNull, <<>>)}
  ELSE IF decryptedData.expires # 0 /\ decryptedData.expires < now
    THEN {Outcome(RNull, o.muts) : o \in CookieDestroy(sessionId)}
  ELSE IF cfg.rolling
    THEN {Outcome(RObj(decryptedData.data, now + maxAge), o.muts) :
            o \in CookieSet(sessionId, decryptedData.data)}
  ELSE {Outcome(RObj(decryptedData.data, decryptedData.expires), <<>>)}

CookieGet(c, sessionId) ==
  IF c.s = Absent THEN {Outcome(RNull, <<>>)}
  ELSE UNION {AfterDecrypt(sessionId, d) : d \in Decrypted(sessionId, c.s)}

\* ---- a store known only by the SessionStore contract ---------------------
\* the data a contract store may hold for a presented identifier
StoredData == {CreatedData}

\* the failures a method of a hand-written store may return
ContractFailures ==
  IF cfg.faults THEN {Outcome(RNull, <<>>), Outcome(RUndef, <<>>)} ELSE {}

ContractCreate(request, sessionData) ==
  ContractFailures
  \cup (IF nextId < MaxIds
          THEN {Outcome(RPair(Ids[nextId + 1], CreatedData), <<>>)}
          ELSE {})

ContractGet(sessionInfo) ==
  ContractFailures
  \cup {Outcome(RPair(sessionInfo, d), <<>>) : d \in StoredData}

ContractSet(sessionMeta, sessionData) == {Outcome(RTrue, <<>>)} \cup ContractFailures

ContractDestroy(sessionMeta) == {Outcome(RTrue, <<>>)} \cup ContractFailures

\* ---- the configured sessionStore ----------------------------------------
StoreCreate(request, sessionData) ==
  IF cfg.store = "cookie" THEN CookieCreate(request, sessionData)
  ELSE ContractCreate(request, sessionData)

StoreGet(c, sessionInfo) ==
  IF cfg.store = "cookie" THEN CookieGet(c, sessionInfo)
  ELSE ContractGet(sessionInfo)

StoreSet(sessionMeta, sessionData) ==
  IF cfg.store = "cookie" THEN CookieSet(sessionMeta, sessionData)
  ELSE ContractSet(sessionMeta, sessionData)

StoreDestroy(sessionMeta) ==
  IF cfg.store = "cookie" THEN CookieDestroy(sessionMeta)
  ELSE ContractDestroy(sessionMeta)

\* ---- responses ----------------------------------------------------------
NoCookie == [t |-> "none"]
NoCookies == [k |-> NoCookie, s |-> NoCookie]

\* a merge in which the first cookie of a name is kept
WithCookieKeepFirst(cs, m) ==
  IF m.name = sessionInfoKey
    THEN (IF cs.k = [t |-> "none"] THEN [cs EXCEPT !.k = m] ELSE cs)
    ELSE (IF cs.s = [t |-> "none"] THEN [cs EXCEPT !.s = m] ELSE cs)

\* the cookies of a response with one more mutation merged in: a later
\* cookie of the same name replaces the earlier one
WithCookie(cs, m) ==
  IF m.name = sessionInfoKey THEN [cs EXCEPT !.k = m] ELSE [cs EXCEPT !.s = m]

RECURSIVE MergeCookies(_, _)
MergeCookies(cs, muts) ==
  IF muts = <<>> THEN cs
  ELSE MergeCookies(WithCookie(cs, Head(muts)), Tail(muts))

\* a cookie the handler's response sets under the identity cookie's name,
\* with a value of its own and no options
HandlerCookie == Cookie(sessionInfoKey, Garbage, 0, NoExpires, FALSE)

\* the downstream handler's response
HandlerResponse ==
  [status |-> 200, body |-> "handler",
   cookies |-> IF cfg.handlerCookie THEN [k |-> HandlerCookie, s |-> NoCookie]
               ELSE NoCookies]

\* Response.json({ error }).status(code)
ErrorResponse(code, error) == [status |-> code, body |-> error, cookies |-> NoCookies]

\* the handler's response returned without the accumulated mutations
MergeDropped(sessionHeaders, resp) == resp

\* a merge in which an accumulated mutation replaces the handler's cookie
MergeMutationsLast(sessionHeaders, resp) ==
  [status |-> resp.status, body |-> resp.body,
   cookies |-> MergeCookies(resp.cookies, sessionHeaders)]

\* Response.merge(...sessionHeaders).merge(response)
Merge(sessionHeaders, resp) ==
  LET merged == MergeCookies(NoCookies, sessionHeaders)
  IN [status |-> resp.status, body |-> resp.body,
      cookies |-> [k |-> IF resp.cookies.k = NoCookie THEN merged.k
                         ELSE resp.cookies.k,
                   s |-> IF resp.cookies.s = NoCookie THEN merged.s
                         ELSE resp.cookies.s]]

\* the client's cookies after a response
JarAfter(j, resp) ==
  [k |-> IF resp.cookies.k = NoCookie THEN j.k ELSE resp.cookies.k.value,
   s |-> IF resp.cookies.s = NoCookie THEN j.s ELSE resp.cookies.s.value]

\* the cookies a client sends: none, those of the last response, the
\* identity cookie alone, a forged or undecodable identity cookie, or (a
\* tampering client) the last response's with the store cookie altered
ClientCookies(j) ==
  {[k |-> Absent, s |-> Absent], j, [k |-> j.k, s |-> Absent],
   [k |-> EncodeMeta(ForgedId), s |-> j.s], [k |-> Garbage, s |-> j.s]}
  \cup (IF cfg.tamper /\ j.s.t = "enc"
          THEN {[k |-> j.k, s |-> Altered(j.s)]} ELSE {})

\* a process-global variable in place of a request-scoped context
ContextSetShared(ctx, r, v) == [q \in DOMAIN ctx |-> v]

\* a Context.set call that is left out
ContextSetSkipped(ctx, r, v) == ctx

\* Context.set(v) in the container of request r
ContextSet(ctx, r, v) == [ctx EXCEPT ![r] = v]

\* an accumulation that does not spread the headers accumulated so far
AccumulateReplacing(sessionHeaders, sessionHeader) == <<sessionHeader>>

\* an accumulation that leaves the new header out
AccumulateDropped(sessionHeaders, sessionHeader) == sessionHeaders

\* sessionHeaderCtx.set([...sessionHeaderCtx.get(), sessionHeader])
Accumulate(sessionHeaders, sessionHeader) == Append(sessionHeaders, sessionHeader)

\* ---- state --------------------------------------------------------------
RNone == [t |-> "none"]
NoLocals ==
  [unverifiedSessionInfo |-> Undef, verifiedResult |-> RNone,
   createResult |-> RNone, setResult |-> RNone]
NoResponse == [status |-> 0, body |-> "none", cookies |-> NoCookies]

\* a SessionStore call made by the middleware or by a lifecycle operation
Call(op, by, meta, data, res) ==
  [op |-> op, by |-> by, meta |-> meta, data |-> data, res |-> res]

\* a test for undefined that never answers yes
NeverUndefined(v) == FALSE

\* v === undefined
IsUndefined(v) == v = Undef

\* a guard that takes every value for truthy
TruthyAlways(v) == TRUE

\* a value is truthy
Truthy(v) == v \notin {Undef, Null, ""}

\* the state after createFarrowSession(config), before any request
Constructed(configs) ==
  /\ cfg \in configs
  /\ now = 0
  /\ nextId = 0
  /\ jar = [k |-> Absent, s |-> Absent]
  /\ opsBound = 0
  /\ pc = [r \in Reqs |-> "idle"]
  /\ cookies = [r \in Reqs |-> [k |-> Absent, s |-> Absent]]
  /\ local = [r \in Reqs |-> NoLocals]
  /\ sessionMetaCtx = [r \in Reqs |-> Undef]
  /\ sessionCtx = [r \in Reqs |-> DefaultData]
  /\ sessionHeaderCtx = [r \in Reqs |-> <<>>]
  /\ task = [r \in Reqs |-> <<>>]
  /\ seen = [r \in Reqs |-> "none"]
  /\ calls = [r \in Reqs |-> <<>>]
  /\ response = [r \in Reqs |-> NoResponse]

\* every lifecycle call of request r has returned
TasksDone(r) == \A i \in 1..Len(task[r]) : task[r][i].pc = "done"

\* ---- the clock ----------------------------------------------------------
\* a tick is longer than any request: the clock ticks between requests
Tick ==
  /\ now < cfg.ticks * TickStep
  /\ \A r \in Reqs : pc[r] \in {"idle", "done"} /\ TasksDone(r)
  /\ now' = now + TickStep
  /\ UNCHANGED <<cfg, nextId, jar, opsBound, pc, cookies, local, sessionMetaCtx,
                 sessionCtx, sessionHeaderCtx, task, seen, calls, response>>

\* ---- the middleware: resolution -----------------------------------------
\* a request arrives in a fresh container and sessionParser.get is called
Arrive(r, c) ==
  /\ pc[r] \in {"idle", "done"}
  /\ TasksDone(r)
  /\ c \in ClientCookies(jar)
  /\ ~ParserGetThrows(c)
  /\ cookies' = [cookies EXCEPT ![r] = c]
  /\ local' = [local EXCEPT ![r] =
                 [NoLocals EXCEPT !.unverifiedSessionInfo = ParserGet(c)]]
  /\ sessionMetaCtx' = [sessionMetaCtx EXCEPT ![r] = Undef]
  /\ sessionCtx' = [sessionCtx EXCEPT ![r] = DefaultData]
  /\ sessionHeaderCtx' = [sessionHeaderCtx EXCEPT ![r] = <<>>]
  /\ task' = [task EXCEPT ![r] = <<>>]
  /\ seen' = [seen EXCEPT ![r] = "none"]
  /\ calls' = [calls EXCEPT ![r] = <<>>]
  /\ response' = [response EXCEPT ![r] = NoResponse]
  /\ pc' = [pc EXCEPT ![r] = "awaitParserGet"]
  /\ UNCHANGED <<cfg, now, nextId, jar, opsBound>>

\* a request arrives and sessionParser.get throws: the middleware's promise
\* rejects and the server answers with its own error response
ArriveThrows(r, c) ==
  /\ pc[r] \in {"idle", "done"}
  /\ TasksDone(r)
  /\ c \in ClientCookies(jar)
  /\ ParserGetThrows(c)
  /\ cookies' = [cookies EXCEPT ![r] = c]
  /\ local' = [local EXCEPT ![r] = NoLocals]
  /\ sessionMetaCtx' = [sessionMetaCtx EXCEPT ![r] = Undef]
  /\ sessionCtx' = [sessionCtx EXCEPT ![r] = DefaultData]
  /\ sessionHeaderCtx' = [sessionHeaderCtx EXCEPT ![r] = <<>>]
  /\ task' = [task EXCEPT ![r] = <<>>]
  /\ seen' = [seen EXCEPT ![r] = "none"]
  /\ calls' = [calls EXCEPT ![r] = <<>>]
  /\ response' = [response EXCEPT ![r] = ErrorResponse(500, "thrown")]
  /\ pc' = [pc EXCEPT ![r] = "done"]
  /\ UNCHANGED <<cfg, now, nextId, jar, opsBound>>

\* the middleware's own sessionStore.create(request) call
MiddlewareCreate(r, o) ==
  /\ o \in StoreCreate(r, Undef)
  /\ nextId' = IF o.res.t = "pair" THEN nextId + 1 ELSE nextId
  /\ local' = [local EXCEPT ![r].createResult = o.res]
  /\ calls' = [calls EXCEPT ![r] =
                 Append(@, Call("create", "middleware", Undef, Undef, o.res))]
  /\ sessionHeaderCtx' = [sessionHeaderCtx EXCEPT ![r] = @ \o o.muts]
  /\ pc' = [pc EXCEPT ![r] = "awaitCreate"]

\* after await sessionParser.get: no session info, so create a session
AfterParserGetAbsent(r) ==
  /\ pc[r] = "awaitParserGet"
  /\ ~Truthy(local[r].unverifiedSessionInfo)
  /\ \E o \in StoreCreate(r, Undef) : MiddlewareCreate(r, o)
  /\ UNCHANGED <<cfg, now, jar, opsBound, cookies, sessionMetaCtx, sessionCtx,
                 task, seen, response>>

\* after await sessionParser.get: session info was presented, so verify it
AfterParserGetPresent(r) ==
  /\ pc[r] = "awaitParserGet"
  /\ Truthy(local[r].unverifiedSessionInfo)
  /\ \E o \in StoreGet(cookies[r], local[r].unverifiedSessionInfo) :
       /\ local' = [local EXCEPT ![r].verifiedResult = o.res]
       /\ calls' = [calls EXCEPT ![r] =
                      Append(@, Call("get", "middleware",
                                     local[r].unverifiedSessionInfo, Undef, o.res))]
       /\ sessionHeaderCtx' = [sessionHeaderCtx EXCEPT ![r] = @ \o o.muts]
  /\ pc' = [pc EXCEPT ![r] = "awaitGet"]
  /\ UNCHANGED <<cfg, now, nextId, jar, opsBound, cookies, sessionMetaCtx,
                 sessionCtx, task, seen, response>>

\* a response after which the middleware awaits next() again
RespondAndResume(r, resp) ==
  /\ response' = [response EXCEPT ![r] = resp]
  /\ jar' = JarAfter(jar, resp)
  /\ pc' = [pc EXCEPT ![r] = "awaitNext"]

\* the request ends with the given response
Respond(r, resp) ==
  /\ response' = [response EXCEPT ![r] = resp]
  /\ jar' = JarAfter(jar, resp)
  /\ pc' = [pc EXCEPT ![r] = "done"]

\* sessionCtx's three operations are assigned and next() is called
InvokeHandler(r, data) ==
  /\ opsBound' = r
  /\ seen' = [seen EXCEPT ![r] = data]
  /\ pc' = [pc EXCEPT ![r] = "handler"]

\* after await sessionStore.get
AfterGet(r) ==
  /\ pc[r] = "awaitGet"
  /\ LET verifiedResult == local[r].verifiedResult IN
       IF HardFailure(verifiedResult) THEN
         /\ Respond(r, ErrorResponse(500, "Internal Server Error"))
         /\ UNCHANGED <<nextId, opsBound, local, sessionMetaCtx, sessionCtx,
                        sessionHeaderCtx, seen, calls>>
       ELSE IF SoftFailure(verifiedResult) THEN
         /\ \E o \in StoreCreate(r, Undef) : MiddlewareCreate(r, o)
         /\ UNCHANGED <<jar, opsBound, sessionMetaCtx, sessionCtx, seen, response>>
       ELSE
         /\ sessionMetaCtx' =
              ContextSet(sessionMetaCtx, r, FieldSessionMeta(verifiedResult))
         /\ sessionCtx' = ContextSet(sessionCtx, r, FieldSessionData(verifiedResult))
         /\ InvokeHandler(r, FieldSessionData(verifiedResult))
         /\ UNCHANGED <<nextId, jar, local, sessionHeaderCtx, calls, response>>
  /\ UNCHANGED <<cfg, now, cookies, task>>

\* after await sessionStore.create: bind the session, call sessionParser.set
AfterCreate(r) ==
  /\ pc[r] = "awaitCreate"
  /\ LET createResult == local[r].createResult IN
       IF Falsy(createResult) THEN
         /\ Respond(r, ErrorResponse(500, "Internal Server Error"))
         /\ UNCHANGED <<sessionMetaCtx, sessionCtx>>
       ELSE
         /\ sessionMetaCtx' =
              ContextSet(sessionMetaCtx, r, FieldSessionMeta(createResult))
         /\ sessionCtx' = ContextSet(sessionCtx, r, FieldSessionData(createResult))
         /\ pc' = [pc EXCEPT ![r] = "awaitParserSet"]
         /\ UNCHANGED <<jar, response>>
  /\ UNCHANGED <<cfg, now, nextId, opsBound, cookies, local, sessionHeaderCtx,
                 task, seen, calls>>

\* after await sessionParser.set: accumulate the header, invoke the handler
AfterParserSet(r) ==
  /\ pc[r] = "awaitParserSet"
  /\ sessionHeaderCtx' =
       [sessionHeaderCtx EXCEPT ![r] =
          Accumulate(@, ParserSet(FieldSessionMeta(local[r].createResult)))]
  /\ InvokeHandler(r, sessionCtx[r])
  /\ UNCHANGED <<cfg, now, nextId, jar, cookies, local, sessionMetaCtx,
                 sessionCtx, task, calls, response>>

\* ---- the downstream handler ---------------------------------------------
\* a lifecycle call: the operation, its position, the request its closure
\* was created for, its local sessionMeta, the store's result and the value
\* the call returns
Task(op, at, request, sessionMeta, res, ret) ==
  [op |-> op, pc |-> at, request |-> request, sessionMeta |-> sessionMeta,
   res |-> res, ret |-> ret]

CanCall(r) == pc[r] = "handler" /\ Len(task[r]) < cfg.tasks /\ opsBound # 0

\* sessionCtx.set(data) in the handler
HandlerSet(r, d) ==
  /\ pc[r] = "handler"
  /\ d \in HandlerData
  /\ sessionCtx' = ContextSet(sessionCtx, r, d)
  /\ UNCHANGED <<cfg, now, nextId, jar, opsBound, pc, cookies, local,
                 sessionMetaCtx, sessionHeaderCtx, task, seen, calls, response>>

\* sessionCtx.regenerateId() up to its first await
CallRegenerateId(r) ==
  /\ CanCall(r)
  /\ LET session == sessionCtx[r] IN
       IF IsUndefined(session) THEN
         /\ task' = [task EXCEPT ![r] =
                       Append(@, Task("regenerateId", "done", opsBound, Undef,
                                      RNone, "false"))]
         /\ UNCHANGED <<nextId, calls, sessionHeaderCtx>>
       ELSE
         \E o \in StoreCreate(opsBound, session) :
           /\ nextId' = IF o.res.t = "pair" THEN nextId + 1 ELSE nextId
           /\ task' = [task EXCEPT ![r] =
                         Append(@, Task("regenerateId", "awaitStore", opsBound,
                                        Undef, o.res, "pending"))]
           /\ calls' = [calls EXCEPT ![r] =
                          Append(@, Call("create", "regenerateId", Undef, session,
                                         o.res))]
           /\ sessionHeaderCtx' = [sessionHeaderCtx EXCEPT ![r] = @ \o o.muts]
  /\ UNCHANGED <<cfg, now, jar, opsBound, pc, cookies, local, sessionMetaCtx,
                 sessionCtx, seen, response>>

\* sessionCtx.destroy() up to its first await
CallDestroy(r) ==
  /\ CanCall(r)
  /\ LET sessionMeta == sessionMetaCtx[r] IN
       IF IsUndefined(sessionMeta) THEN
         /\ task' = [task EXCEPT ![r] =
                       Append(@, Task("destroy", "done", opsBound, Undef, RNone,
                                      "false"))]
         /\ UNCHANGED <<calls, sessionHeaderCtx>>
       ELSE
         \E o \in StoreDestroy(sessionMeta) :
           /\ task' = [task EXCEPT ![r] =
                         Append(@, Task("destroy", "awaitStore", opsBound,
                                        sessionMeta, o.res, "pending"))]
           /\ calls' = [calls EXCEPT ![r] =
                          Append(@, Call("destroy", "destroy", sessionMeta, Undef,
                                         o.res))]
           /\ sessionHeaderCtx' = [sessionHeaderCtx EXCEPT ![r] = @ \o o.muts]
  /\ UNCHANGED <<cfg, now, nextId, jar, opsBound, pc, cookies, local,
                 sessionMetaCtx, sessionCtx, seen, response>>

\* sessionCtx.saveToStore() up to its first await
CallSaveToStore(r) ==
  /\ CanCall(r)
  /\ LET sessionMeta == sessionMetaCtx[r] IN
       IF IsUndefined(sessionMeta) THEN
         /\ task' = [task EXCEPT ![r] =
                       Append(@, Task("saveToStore", "done", opsBound, Undef,
                                      RNone, "false"))]
         /\ UNCHANGED <<calls, sessionHeaderCtx>>
       ELSE
         \E o \in StoreSet(sessionMeta, sessionCtx[r]) :
           /\ task' = [task EXCEPT ![r] =
                         Append(@, Task("saveToStore", "awaitStore", opsBound,
                                        sessionMeta, o.res, "pending"))]
           /\ calls' = [calls EXCEPT ![r] =
                          Append(@, Call("set", "saveToStore", sessionMeta,
                                         sessionCtx[r], o.res))]
           /\ sessionHeaderCtx' = [sessionHeaderCtx EXCEPT ![r] = @ \o o.muts]
  /\ UNCHANGED <<cfg, now, nextId, jar, opsBound, pc, cookies, local,
                 sessionMetaCtx, sessionCtx, seen, response>>

\* a lifecycle call that, resuming, puts the data of its store result into
\* sessionCtx
TaskAfterStoreAdoptsData(r, i) ==
  /\ i \in 1..Len(task[r])
  /\ task[r][i].pc = "awaitStore"
  /\ task' = [task EXCEPT ![r][i].pc = "done",
                          ![r][i].ret = RetOf(task[r][i].res)]
  /\ sessionCtx' = ContextSet(sessionCtx, r, FieldSessionData(task[r][i].res))
  /\ UNCHANGED <<cfg, now, nextId, jar, opsBound, pc, cookies, local,
                 sessionMetaCtx, sessionHeaderCtx, seen, calls, response>>

\* a resumption after which destroy leaves the sessionMeta bound
TaskAfterStoreKeepsMeta(r, i) ==
  /\ i \in 1..Len(task[r])
  /\ task[r][i].pc = "awaitStore"
  /\ LET tk == task[r][i] IN
       IF tk.op = "saveToStore" \/ Falsy(tk.res) THEN
         /\ task' = [task EXCEPT ![r][i].pc = "done", ![r][i].ret = RetOf(tk.res)]
         /\ UNCHANGED sessionMetaCtx
       ELSE IF tk.op = "regenerateId" THEN
         /\ sessionMetaCtx' =
              ContextSet(sessionMetaCtx, r, FieldSessionMeta(tk.res))
         /\ task' = [task EXCEPT ![r][i].pc = "awaitParser",
                                 ![r][i].sessionMeta = FieldSessionMeta(tk.res)]
       ELSE
         /\ UNCHANGED sessionMetaCtx
         /\ task' = [task EXCEPT ![r][i].pc = "awaitParser"]
  /\ UNCHANGED <<cfg, now, nextId, jar, opsBound, pc, cookies, local, sessionCtx,
                 sessionHeaderCtx, seen, calls, response>>

\* a lifecycle call resumes after its store call
TaskAfterStore(r, i) ==
  /\ i \in 1..Len(task[r])
  /\ task[r][i].pc = "awaitStore"
  /\ LET tk == task[r][i] IN
       IF tk.op = "saveToStore" \/ Falsy(tk.res) THEN
         /\ task' = [task EXCEPT ![r][i].pc = "done", ![r][i].ret = RetOf(tk.res)]
         /\ UNCHANGED sessionMetaCtx
       ELSE IF tk.op = "regenerateId" THEN
         /\ sessionMetaCtx' =
              ContextSet(sessionMetaCtx, r, FieldSessionMeta(tk.res))
         /\ task' = [task EXCEPT ![r][i].pc = "awaitParser",
                                 ![r][i].sessionMeta = FieldSessionMeta(tk.res)]
       ELSE
         /\ sessionMetaCtx' = ContextSet(sessionMetaCtx, r, Undef)
         /\ task' = [task EXCEPT ![r][i].pc = "awaitParser"]
  /\ UNCHANGED <<cfg, now, nextId, jar, opsBound, pc, cookies, local, sessionCtx,
                 sessionHeaderCtx, seen, calls, response>>

\* a lifecycle call resumes after sessionParser.set or sessionParser.remove
TaskAfterParser(r, i) ==
  /\ i \in 1..Len(task[r])
  /\ task[r][i].pc = "awaitParser"
  /\ LET tk == task[r][i]
         sessionHeader == IF tk.op = "regenerateId" THEN ParserSet(tk.sessionMeta)
                          ELSE ParserRemove(tk.sessionMeta)
     IN /\ sessionHeaderCtx' =
             [sessionHeaderCtx EXCEPT ![r] = Accumulate(@, sessionHeader)]
        /\ task' = [task EXCEPT ![r][i].pc = "done", ![r][i].ret = "true"]
  /\ UNCHANGED <<cfg, now, nextId, jar, opsBound, pc, cookies, local,
                 sessionMetaCtx, sessionCtx, seen, calls, response>>

\* placeholders that return false
PlaceholderReturnsFalse(op) == "false"

\* what the operations createSessionCtx installs do: they throw
\* '<op> is not implemented yet, ...', so the call's promise rejects
Placeholder(op) == "thrown"

LifecycleOps == {"saveToStore", "regenerateId", "destroy"}

\* a handler that no session middleware precedes (slot r serves its request)
\* calls an operation of sessionCtx before any request has passed through
\* the middleware
CallUnattached(r, op) ==
  /\ opsBound = 0
  /\ pc[r] = "idle"
  /\ Len(task[r]) < cfg.tasks
  /\ op \in LifecycleOps
  /\ task' = [task EXCEPT ![r] =
                Append(@, Task(op, "done", opsBound, Undef, RNone,
                               Placeholder(op)))]
  /\ UNCHANGED <<cfg, now, nextId, jar, opsBound, pc, cookies, local,
                 sessionMetaCtx, sessionCtx, sessionHeaderCtx, seen, calls,
                 response>>

\* the handler returns its response
HandlerReturn(r) ==
  /\ pc[r] = "handler"
  /\ pc' = [pc EXCEPT ![r] = "awaitNext"]
  /\ UNCHANGED <<cfg, now, nextId, jar, opsBound, cookies, local, sessionMetaCtx,
                 sessionCtx, sessionHeaderCtx, task, seen, calls, response>>

\* a completion that autosaves under the meta the request was resolved to
AfterNextResolvedMeta(r) ==
  /\ pc[r] = "awaitNext"
  /\ LET sessionMeta ==
           IF local[r].createResult # RNone
           THEN FieldSessionMeta(local[r].createResult)
           ELSE FieldSessionMeta(local[r].verifiedResult)
     IN \E o \in StoreSet(sessionMeta, sessionCtx[r]) :
          /\ local' = [local EXCEPT ![r].setResult = o.res]
          /\ calls' = [calls EXCEPT ![r] =
                         Append(@, Call("set", "middleware", sessionMeta,
                                        sessionCtx[r], o.res))]
          /\ sessionHeaderCtx' = [sessionHeaderCtx EXCEPT ![r] = @ \o o.muts]
  /\ pc' = [pc EXCEPT ![r] = "awaitSet"]
  /\ UNCHANGED <<cfg, now, nextId, jar, opsBound, cookies, sessionMetaCtx,
                 sessionCtx, task, seen, response>>

\* ---- the middleware: completion -----------------------------------------
\* after await next(): autosave, or merge at once
AfterNext(r) ==
  /\ pc[r] = "awaitNext"
  /\ LET sessionMeta == sessionMetaCtx[r] IN
       IF cfg.autoSave /\ Truthy(sessionMeta) THEN
         /\ \E o \in StoreSet(sessionMeta, sessionCtx[r]) :
              /\ local' = [local EXCEPT ![r].setResult = o.res]
              /\ calls' = [calls EXCEPT ![r] =
                             Append(@, Call("set", "middleware", sessionMeta,
                                            sessionCtx[r], o.res))]
              /\ sessionHeaderCtx' = [sessionHeaderCtx EXCEPT ![r] = @ \o o.muts]
         /\ pc' = [pc EXCEPT ![r] = "awaitSet"]
         /\ UNCHANGED <<jar, response>>
       ELSE
         /\ Respond(r, Merge(sessionHeaderCtx[r], HandlerResponse))
         /\ UNCHANGED <<local, calls, sessionHeaderCtx>>
  /\ UNCHANGED <<cfg, now, nextId, opsBound, cookies, sessionMetaCtx, sessionCtx,
                 task, seen>>

\* a completion whose error responses carry the accumulated mutations
AfterSetMergesErrors(r) ==
  /\ pc[r] = "awaitSet"
  /\ LET setResult == local[r].setResult IN
       IF HardFailure(setResult) THEN
         Respond(r, Merge(sessionHeaderCtx[r],
                          ErrorResponse(500, "Internal Server Error")))
       ELSE IF SoftFailure(setResult) THEN
         Respond(r, Merge(sessionHeaderCtx[r],
                          ErrorResponse(401, "SessionStore Set Failed")))
       ELSE Respond(r, Merge(sessionHeaderCtx[r], HandlerResponse))
  /\ UNCHANGED <<cfg, now, nextId, opsBound, cookies, local, sessionMetaCtx,
                 sessionCtx, sessionHeaderCtx, task, seen, calls>>

\* after await sessionStore.set
AfterSet(r) ==
  /\ pc[r] = "awaitSet"
  /\ LET setResult == local[r].setResult IN
       IF HardFailure(setResult) THEN
         Respond(r, ErrorResponse(500, "Internal Server Error"))
       ELSE IF SoftFailure(setResult) THEN
         Respond(r, ErrorResponse(401, "SessionStore Set Failed"))
       ELSE Respond(r, Merge(sessionHeaderCtx[r], HandlerResponse))
  /\ UNCHANGED <<cfg, now, nextId, opsBound, cookies, local, sessionMetaCtx,
                 sessionCtx, sessionHeaderCtx, task, seen, calls>>

\* ---- specification ------------------------------------------------------
\* the middleware's steps for a request that has arrived
MiddlewareSteps(r) ==
  \/ AfterParserGetAbsent(r)
  \/ AfterParserGetPresent(r)
  \/ AfterGet(r)
  \/ AfterCreate(r)
  \/ AfterParserSet(r)
  \/ HandlerReturn(r)
  \/ AfterNext(r)
  \/ AfterSet(r)

\* the steps of the downstream handler and of its lifecycle calls
HandlerSteps(r) ==
  \/ \E d \in HandlerData : HandlerSet(r, d)
  \/ CallRegenerateId(r)
  \/ CallDestroy(r)
  \/ CallSaveToStore(r)
  \/ \E i \in 1..Len(task[r]) : TaskAfterStore(r, i)
  \/ \E i \in 1..Len(task[r]) : TaskAfterParser(r, i)

\* the steps of a request that has arrived
Steps == \E r \in Reqs : MiddlewareSteps(r) \/ HandlerSteps(r)

\* requests served one at a time
Next ==
  \/ \E c \in ClientCookies(jar) : Arrive(1, c)
  \/ Steps

\* configurations without rolling expiration and with the default max-age
Init == Constructed({c \in Configs : ~c.rolling /\ c.time = NoTime})

Spec == Init /\ [][Next]_vars

\* the cookieSessionStore in every configuration, with the clock running
NextClock == Next \/ Tick

InitClock == Constructed({c \in Configs : c.store = "cookie"})

SpecClock == InitClock /\ [][NextClock]_vars

\* requests one at a time under the clock, with a handler that only
\* responds, for each of the parser's and the store's options
NextOpts ==
  \/ \E c \in ClientCookies(jar) : Arrive(1, c)
  \/ \E c \in ClientCookies(jar) : ArriveThrows(1, c)
  \/ MiddlewareSteps(1)
  \/ Tick

InitOpts == Constructed(OptConfigs)

SpecOpts == InitOpts /\ [][NextOpts]_vars

\* requests served one at a time, where every step that can be taken is
\* taken in the end: each store and parser call returns, each await resumes
\* and the handler returns
\* (under a store that may fail a handler that only responds, under the
\* cookie store a handler that uses the session)
LiveConfigs ==
  {[c EXCEPT !.tasks = 0] : c \in {c \in Configs : c.store = "contract"}}
  \cup {c \in Configs : c.store = "cookie" /\ ~c.rolling /\ c.time = NoTime}

SpecLive == Constructed(LiveConfigs) /\ [][Next]_vars /\ WF_vars(Steps)

\* a handler that awaits each lifecycle call before its next statement and
\* before it returns, issuing up to SeqTasks calls
AwaitConfigs ==
  {[c EXCEPT !.tasks = SeqTasks] :
     c \in {c \in Configs : ~c.rolling /\ c.time = NoTime}}

AwaitingHandlerSteps(r) ==
  \/ /\ TasksDone(r)
     /\ \/ \E d \in HandlerData : HandlerSet(r, d)
        \/ CallRegenerateId(r)
        \/ CallDestroy(r)
        \/ CallSaveToStore(r)
  \/ \E i \in 1..Len(task[r]) : TaskAfterStore(r, i)
  \/ \E i \in 1..Len(task[r]) : TaskAfterParser(r, i)

NextAwait ==
  \/ \E c \in ClientCookies(jar) : Arrive(1, c)
  \/ TasksDone(1) /\ MiddlewareSteps(1)
  \/ AwaitingHandlerSteps(1)

SpecAwait == Constructed(AwaitConfigs) /\ [][NextAwait]_vars

\* a route without the middleware (slot 2) next to the route with it (slot
\* 1), the store being a hand-written one whose methods work
NextUnattached ==
  \/ \E op \in LifecycleOps : CallUnattached(2, op)
  \/ Next

SpecUnattached == Constructed(ConcConfigs) /\ [][NextUnattached]_vars

\* two requests, each in a container of its own, in flight at once through
\* the same middleware with autoSave on; the handler of request 1 uses the
\* session, the handler of request 2 only returns its response
ArriveOnce(r, c) == pc[r] = "idle" /\ Arrive(r, c)

\* the cookies of the two requests: none, or an identifier the store may know
ConcCookies ==
  {[k |-> Absent, s |-> Absent], [k |-> EncodeMeta(ForgedId), s |-> Absent]}

NextConc ==
  \/ \E r \in Reqs : \E c \in ConcCookies : ArriveOnce(r, c)
  \/ MiddlewareSteps(1) \/ HandlerSteps(1)
  \/ MiddlewareSteps(2)

InitConc == Constructed(ConcConfigs)

SpecConc == InitConc /\ [][NextConc]_vars

\* a handler that issues lifecycle calls one after another, awaited or not
InitSeq == Constructed(SeqConfigs)

SpecSeq == InitSeq /\ [][Next]_vars

\* ---- two nested middleware instances ------------------------------------
\* http.use(outer); http.use(inner); http.use(handler): slot 1 holds the
\* outer instance's locals, contexts, calls and response, slot 2 the inner
\* instance's. Each instance has a sessionCtx, a sessionMetaCtx, a parser
\* and a hand-written store of its own; the inner parser is a
\* cookieSessionParser under another sessionInfoKey. sessionHeaderCtx is one
\* module-wide context, so within the request's container both instances
\* read and write one cell: sessionHeaderCtx[1].
innerInfoKey == "inner:k"

\* the inner parser's set and remove
InnerParserSet(m) == [ParserSet(m) EXCEPT !.name = innerInfoKey]
InnerParserRemove(m) == [ParserRemove(m) EXCEPT !.name = innerInfoKey]

NestedConfigs == {[c EXCEPT !.tasks = 1] : c \in {c \in Configs : c.store = "contract"}}

\* a request arrives at the outer instance with the client's two identity
\* cookies (the jar's second cookie is the one named innerInfoKey)
NestedCookies(j) ==
  {[k |-> Absent, s |-> Absent], j, [k |-> EncodeMeta(ForgedId), s |-> j.s]}

NestedArrive(c) ==
  /\ \A r \in Reqs : pc[r] \in {"idle", "done"} /\ TasksDone(r)
  /\ c \in NestedCookies(jar)
  /\ cookies' = [cookies EXCEPT ![1] = [k |-> c.k, s |-> Absent],
                                ![2] = [k |-> c.s, s |-> Absent]]
  /\ local' = [local EXCEPT
                 ![1] = [NoLocals EXCEPT
                           !.unverifiedSessionInfo =
                              ParserGet([k |-> c.k, s |-> Absent])],
                 ![2] = NoLocals]
  /\ sessionMetaCtx' = [r \in Reqs |-> Undef]
  /\ sessionCtx' = [r \in Reqs |-> DefaultData]
  /\ sessionHeaderCtx' = [r \in Reqs |-> <<>>]
  /\ task' = [r \in Reqs |-> <<>>]
  /\ seen' = [r \in Reqs |-> "none"]
  /\ calls' = [r \in Reqs |-> <<>>]
  /\ response' = [r \in Reqs |-> NoResponse]
  /\ pc' = [pc EXCEPT ![1] = "awaitParserGet", ![2] = "idle"]
  /\ UNCHANGED <<cfg, now, nextId, jar, opsBound>>

\* the outer instance's next() enters the inner instance, which calls its
\* sessionParser.get
InnerEnter ==
  /\ pc[1] = "handler" /\ pc[2] = "idle"
  /\ local' = [local EXCEPT ![2].unverifiedSessionInfo = ParserGet(cookies[2])]
  /\ pc' = [pc EXCEPT ![2] = "awaitParserGet"]
  /\ UNCHANGED <<cfg, now, nextId, jar, opsBound, cookies, sessionMetaCtx,
                 sessionCtx, sessionHeaderCtx, task, seen, calls, response>>

\* an inner instance that accumulates into a cell of its own
InnerAfterParserSetOwnCell ==
  /\ pc[2] = "awaitParserSet"
  /\ sessionHeaderCtx' =
       [sessionHeaderCtx EXCEPT ![2] =
          Accumulate(@, InnerParserSet(FieldSessionMeta(local[2].createResult)))]
  /\ InvokeHandler(2, sessionCtx[2])
  /\ UNCHANGED <<cfg, now, nextId, jar, cookies, local, sessionMetaCtx,
                 sessionCtx, task, calls, response>>

\* the inner instance after await sessionParser.set
InnerAfterParserSet ==
  /\ pc[2] = "awaitParserSet"
  /\ sessionHeaderCtx' =
       [sessionHeaderCtx EXCEPT ![1] =
          Accumulate(@, InnerParserSet(FieldSessionMeta(local[2].createResult)))]
  /\ InvokeHandler(2, sessionCtx[2])
  /\ UNCHANGED <<cfg, now, nextId, jar, cookies, local, sessionMetaCtx,
                 sessionCtx, task, calls, response>>

\* a lifecycle call on the inner sessionCtx resumes after its parser call
InnerTaskAfterParser(i) ==
  /\ i \in 1..Len(task[2])
  /\ task[2][i].pc = "awaitParser"
  /\ LET tk == task[2][i]
         sessionHeader == IF tk.op = "regenerateId"
                            THEN InnerParserSet(tk.sessionMeta)
                            ELSE InnerParserRemove(tk.sessionMeta)
     IN /\ sessionHeaderCtx' =
             [sessionHeaderCtx EXCEPT ![1] = Accumulate(@, sessionHeader)]
        /\ task' = [task EXCEPT ![2][i].pc = "done", ![2][i].ret = "true"]
  /\ UNCHANGED <<cfg, now, nextId, jar, opsBound, pc, cookies, local,
                 sessionMetaCtx, sessionCtx, seen, calls, response>>

\* what await next() resolves to: for the outer instance the inner
\* instance's response, for the inner instance the handler's
NextResponse(r) == IF r = 1 THEN response[2] ELSE HandlerResponse

\* an instance returns its response: the outer instance's goes to the
\* client, the inner instance's to the outer instance
Return(r, resp) ==
  IF r = 1 THEN Respond(r, resp)
  ELSE /\ response' = [response EXCEPT ![r] = resp]
       /\ pc' = [pc EXCEPT ![r] = "done"]
       /\ UNCHANGED jar

\* an instance after await next(): autosave, or merge at once
NestedAfterNext(r) ==
  /\ pc[r] = "awaitNext"
  /\ LET sessionMeta == sessionMetaCtx[r] IN
       IF cfg.autoSave /\ Truthy(sessionMeta) THEN
         /\ \E o \in StoreSet(sessionMeta, sessionCtx[r]) :
              /\ local' = [local EXCEPT ![r].setResult = o.res]
              /\ calls' = [calls EXCEPT ![r] =
                             Append(@, Call("set", "middleware", sessionMeta,
                                            sessionCtx[r], o.res))]
              /\ sessionHeaderCtx' = [sessionHeaderCtx EXCEPT ![1] = @ \o o.muts]
         /\ pc' = [pc EXCEPT ![r] = "awaitSet"]
         /\ UNCHANGED <<jar, response>>
       ELSE
         /\ Return(r, Merge(sessionHeaderCtx[1], NextResponse(r)))
         /\ UNCHANGED <<local, calls, sessionHeaderCtx>>
  /\ UNCHANGED <<cfg, now, nextId, opsBound, cookies, sessionMetaCtx, sessionCtx,
                 task, seen>>

\* an instance after await sessionStore.set
NestedAfterSet(r) ==
  /\ pc[r] = "awaitSet"
  /\ LET setResult == local[r].setResult IN
       IF HardFailure(setResult) THEN
         Return(r, ErrorResponse(500, "Internal Server Error"))
       ELSE IF SoftFailure(setResult) THEN
         Return(r, ErrorResponse(401, "SessionStore Set Failed"))
       ELSE Return(r, Merge(sessionHeaderCtx[1], NextResponse(r)))
  /\ UNCHANGED <<cfg, now, nextId, opsBound, cookies, local, sessionMetaCtx,
                 sessionCtx, sessionHeaderCtx, task, seen, calls>>

\* the handler below both instances is running
InHandler == pc[1] = "handler" /\ pc[2] = "handler"

\* the outer instance resolves the request, then the inner instance; the
\* handler may write the outer sessionCtx, then issues one lifecycle call
\* on each sessionCtx, awaiting each; the inner instance completes, then
\* the outer one
NextNested ==
  \/ \E c \in NestedCookies(jar) : NestedArrive(c)
  \/ AfterParserGetAbsent(1) \/ AfterParserGetPresent(1)
  \/ AfterGet(1) \/ AfterCreate(1) \/ AfterParserSet(1)
  \/ InnerEnter
  \/ AfterParserGetAbsent(2) \/ AfterParserGetPresent(2)
  \/ AfterGet(2) \/ AfterCreate(2) \/ InnerAfterParserSet
  \/ /\ InHandler /\ \A q \in Reqs : task[q] = <<>>
     /\ \E d \in HandlerData : HandlerSet(1, d)
  \/ /\ InHandler /\ \A q \in Reqs : TasksDone(q)
     /\ \E r \in Reqs :
          \/ CallRegenerateId(r) \/ CallDestroy(r) \/ CallSaveToStore(r)
  \/ \E r \in Reqs : \E i \in 1..Len(task[r]) : TaskAfterStore(r, i)
  \/ \E i \in 1..Len(task[1]) : TaskAfterParser(1, i)
  \/ \E i \in 1..Len(task[2]) : InnerTaskAfterParser(i)
  \/ (\A r \in Reqs : TasksDone(r)) /\ HandlerReturn(2)
  \/ NestedAfterNext(2) \/ NestedAfterSet(2)
  \/ pc[2] = "done" /\ HandlerReturn(1)
  \/ NestedAfterNext(1) \/ NestedAfterSet(1)

SpecNested == Constructed(NestedConfigs) /\ [][NextNested]_vars

\* ---- properties ---------------------------------------------------------
\* the mutations of the identity cookie among the accumulated ones
IdentityMutations(hs) == SelectSeq(hs, LAMBDA m : m.name = sessionInfoKey)

\* the identity cookie sessionParser.set writes for meta m
IsParserSet(h, m) ==
  h.name = sessionInfoKey /\ h.value = [t |-> "b64json", v |-> m]

\* the handler of request r has just been invoked: it has not yet called a
\* lifecycle operation
AtHandlerEntry(r) == pc[r] = "handler" /\ task[r] = <<>>

\* request r presented no session info
InfoAbsent(r) == local[r].unverifiedSessionInfo \in {Undef, Null}

\* request r is past the given call of the middleware
Resolved(r) == pc[r] \notin {"idle", "awaitParserGet"}

\* C1: when sessionParser.get yields no session info the middleware calls
\* sessionStore.create(request), and if that succeeds then at the moment the
\* handler is invoked the returned sessionMeta is bound, sessionCtx holds the
\* returned data and exactly one sessionParser.set(meta) mutation has been
\* accumulated.
C1_AbsentCreatesSession ==
  \A r \in Reqs :
    (Resolved(r) /\ InfoAbsent(r)) =>
      /\ Len(calls[r]) >= 1
      /\ calls[r][1].op = "create" /\ calls[r][1].by = "middleware"
      /\ calls[r][1].data = Undef
      /\ calls[r][1].res = local[r].createResult
      /\ AtHandlerEntry(r) =>
           /\ local[r].createResult.t = "pair"
           /\ sessionMetaCtx[r] = local[r].createResult.sessionMeta
           /\ seen[r] = local[r].createResult.sessionData
           /\ Len(IdentityMutations(sessionHeaderCtx[r])) = 1
           /\ IsParserSet(IdentityMutations(sessionHeaderCtx[r])[1],
                          local[r].createResult.sessionMeta)

C1_Witness ==
  /\ AtHandlerEntry(1) /\ InfoAbsent(1)
  /\ sessionMetaCtx[1] = "id1" /\ seen[1] = CreatedData
  /\ Len(sessionHeaderCtx[1]) = 1

\* C2: when sessionParser.get yields session info and sessionStore.get
\* returns null, the middleware calls sessionStore.create(request) next, and
\* at the moment the handler is invoked the newly created sessionMeta, which
\* differs from the presented info, is bound, sessionCtx holds the created
\* data and exactly one sessionParser.set(newMeta) mutation has been
\* accumulated.
C2_SoftFailureCreatesSession ==
  \A r \in Reqs :
    (~InfoAbsent(r) /\ local[r].verifiedResult.t = "null"
       /\ pc[r] \notin {"idle", "awaitParserGet", "awaitGet"}) =>
      /\ Len(calls[r]) >= 2
      /\ calls[r][1].op = "get"
      /\ calls[r][1].meta = local[r].unverifiedSessionInfo
      /\ calls[r][2].op = "create" /\ calls[r][2].by = "middleware"
      /\ calls[r][2].data = Undef
      /\ calls[r][2].res = local[r].createResult
      /\ AtHandlerEntry(r) =>
           /\ local[r].createResult.t = "pair"
           /\ sessionMetaCtx[r] = local[r].createResult.sessionMeta
           /\ sessionMetaCtx[r] # local[r].unverifiedSessionInfo
           /\ seen[r] = local[r].createResult.sessionData
           /\ Len(IdentityMutations(sessionHeaderCtx[r])) = 1
           /\ IsParserSet(IdentityMutations(sessionHeaderCtx[r])[1],
                          local[r].createResult.sessionMeta)

C2_Witness ==
  /\ AtHandlerEntry(1)
  /\ local[1].unverifiedSessionInfo = "id1"
  /\ local[1].verifiedResult.t = "null"
  /\ sessionMetaCtx[1] = "id2"
  /\ seen[1] = CreatedData

\* C3: when sessionParser.get yields session info and sessionStore.get
\* succeeds, the middleware binds the sessionMeta and the sessionCtx data of
\* the returned value, accumulates no sessionParser.set or
\* sessionParser.remove mutation during resolution and does not call
\* sessionStore.create.
C3_FoundBindsReturnedValue ==
  \A r \in Reqs :
    (AtHandlerEntry(r) /\ local[r].verifiedResult.t \in {"pair", "obj"}) =>
      /\ local[r].verifiedResult.t = "pair" =>
           /\ sessionMetaCtx[r] = local[r].verifiedResult.sessionMeta
           /\ seen[r] = local[r].verifiedResult.sessionData
      /\ local[r].verifiedResult.t = "obj" =>
           /\ sessionMetaCtx[r] = Undef
           /\ seen[r] = Undef
      /\ IdentityMutations(sessionHeaderCtx[r]) = <<>>
      /\ \A i \in 1..Len(calls[r]) : calls[r][i].op # "create"
      /\ local[r].createResult = RNone

C3_Witness ==
  /\ AtHandlerEntry(1)
  /\ local[1].verifiedResult.t = "pair"
  /\ sessionMetaCtx[1] = "id1" /\ seen[1] = CreatedData
  /\ sessionHeaderCtx[1] = <<>>

C5_CookieGetReturnsPair ==
  \A r \in Reqs :
    (cfg.store = "cookie" /\ local[r].verifiedResult.t \in {"pair", "obj"}) =>
      /\ local[r].verifiedResult.t = "pair"
      /\ local[r].verifiedResult.sessionMeta = local[r].unverifiedSessionInfo
      /\ local[r].verifiedResult.sessionData = cookies[r].s.data
      /\ AtHandlerEntry(r) =>
           /\ sessionMetaCtx[r] = local[r].unverifiedSessionInfo
           /\ seen[r] = cookies[r].s.data

\* the identity cookie and the store cookie of request r belong to one
\* session that has not expired
ReplaysSession(r) ==
  /\ cookies[r].k.t = "b64json"
  /\ cookies[r].s.t = "enc"
  /\ cookies[r].s.id = cookies[r].k.v
  /\ ~(cookies[r].s.expires # 0 /\ cookies[r].s.expires < now)

\* C6: with the cookie parser and the cookie store under autoSave, a first
\* request with no cookie yields a response that sets the session cookie and
\* its handler observes the default data; a request replaying the cookies of
\* such a response has its handler observe the data saved with them, and no
\* new sessionParser.set mutation is accumulated for it.
C6_EndToEndReplay ==
  \A r \in Reqs :
    (cfg.store = "cookie" /\ cfg.autoSave) =>
      /\ (pc[r] = "done" /\ cookies[r].k = Absent /\ task[r] = <<>>) =>
           /\ seen[r] = CreatedData
           /\ response[r].status = 200
           /\ response[r].cookies.k # NoCookie
           /\ IsParserSet(response[r].cookies.k, sessionMetaCtx[r])
      /\ (ReplaysSession(r) /\ seen[r] # "none") =>
           /\ seen[r] = cookies[r].s.data
           /\ AtHandlerEntry(r) => IdentityMutations(sessionHeaderCtx[r]) = <<>>

\* the last accumulated mutation of the named cookie
RECURSIVE LastOf(_, _)
LastOf(name, hs) ==
  IF hs = <<>> THEN NoCookie
  ELSE IF hs[Len(hs)].name = name THEN hs[Len(hs)]
  ELSE LastOf(name, SubSeq(hs, 1, Len(hs) - 1))

\* C7: when autoSave is on and a sessionMeta is bound when the middleware
\* resumes after the handler, it calls sessionStore.set(meta, the data held
\* in sessionCtx); undefined gives the 500 response, null the 401 response,
\* and true the handler's response merged with the accumulated mutations.
C7_Autosave ==
  [][\A r \in Reqs :
       /\ (pc[r] = "awaitNext" /\ pc'[r] # "awaitNext"
             /\ cfg.autoSave /\ sessionMetaCtx[r] # Undef) =>
            /\ pc'[r] = "awaitSet"
            /\ calls'[r] =
                 Append(calls[r],
                        Call("set", "middleware", sessionMetaCtx[r], sessionCtx[r],
                             local'[r].setResult))
            /\ local'[r].setResult.t \in {"true", "null", "undefined"}
       /\ (pc[r] = "awaitSet" /\ pc'[r] # "awaitSet") =>
            /\ pc'[r] = "done"
            /\ local[r].setResult.t = "undefined" =>
                 /\ response'[r].status = 500
                 /\ response'[r].body = "Internal Server Error"
            /\ local[r].setResult.t = "null" =>
                 /\ response'[r].status = 401
                 /\ response'[r].body = "SessionStore Set Failed"
            /\ local[r].setResult.t = "true" =>
                 /\ response'[r].status = 200
                 /\ response'[r].body = "handler"
                 /\ response'[r].cookies.k = LastOf(sessionInfoKey, sessionHeaderCtx[r])
                 /\ response'[r].cookies.s = LastOf(sessionStoreKey, sessionHeaderCtx[r])
    ]_vars

C7_Witness ==
  /\ pc[1] = "done" /\ response[1].status = 200
  /\ cfg.autoSave /\ cfg.store = "contract"
  /\ sessionCtx[1] \in HandlerData
  /\ calls[1][Len(calls[1])] =
       Call("set", "middleware", "id1", sessionCtx[1], RTrue)
  /\ response[1].cookies.k # NoCookie

\* C8: the middleware's completion step never calls sessionStore.set when
\* autoSave is off, nor when no sessionMeta is bound at that step.
C8_NoAutosaveWithoutMeta ==
  \A r \in Reqs : \A i \in 1..Len(calls[r]) :
    (calls[r][i].op = "set" /\ calls[r][i].by = "middleware") =>
      /\ cfg.autoSave
      /\ calls[r][i].meta \notin {Undef, Null}

C8_Witness ==
  /\ pc[1] = "done" /\ response[1].status = 200
  /\ cfg.autoSave
  /\ Len(task[1]) = 1 /\ task[1][1].op = "destroy" /\ task[1][1].ret = "true"
  /\ sessionMetaCtx[1] = Undef
  /\ \A i \in 1..Len(calls[1]) : calls[1][i].op # "set"

\* lifecycle call i of request r is issued in this step
Issued(r, i) == Len(task[r]) = i - 1 /\ Len(task'[r]) = i

\* lifecycle call i of request r leaves the given position in this step
Leaves(r, i, at) ==
  /\ i <= Len(task[r]) /\ task[r][i].pc = at
  /\ i <= Len(task'[r]) /\ task'[r][i].pc # at

\* C9: regenerateId() invoked while sessionCtx holds data calls
\* sessionStore.create(request, currentData) and, on success, rebinds the
\* sessionMeta to the returned meta, accumulates exactly one
\* sessionParser.set(newMeta) mutation and returns true.
C9_RegenerateId ==
  [][\A r \in Reqs : \A i \in 1..MaxTasks :
       /\ (Issued(r, i) /\ task'[r][i].op = "regenerateId"
             /\ sessionCtx[r] # Undef) =>
            /\ task'[r][i].pc = "awaitStore"
            /\ task'[r][i].request = r
            /\ calls'[r] =
                 Append(calls[r],
                        Call("create", "regenerateId", Undef, sessionCtx[r],
                             task'[r][i].res))
       /\ (Leaves(r, i, "awaitStore") /\ task[r][i].op = "regenerateId"
             /\ task[r][i].res.t = "pair") =>
            /\ task'[r][i].pc = "awaitParser"
            /\ sessionMetaCtx'[r] = task[r][i].res.sessionMeta
            /\ sessionHeaderCtx'[r] = sessionHeaderCtx[r]
       /\ (Leaves(r, i, "awaitParser") /\ task[r][i].op = "regenerateId") =>
            /\ task'[r][i].pc = "done"
            /\ task'[r][i].ret = "true"
            /\ Len(sessionHeaderCtx'[r]) = Len(sessionHeaderCtx[r]) + 1
            /\ SubSeq(sessionHeaderCtx'[r], 1, Len(sessionHeaderCtx[r]))
                 = sessionHeaderCtx[r]
            /\ IsParserSet(sessionHeaderCtx'[r][Len(sessionHeaderCtx'[r])],
                           task[r][i].res.sessionMeta)
    ]_vars

C9_Witness ==
  /\ pc[1] = "handler"
  /\ Len(task[1]) = 1 /\ task[1][1].op = "regenerateId"
  /\ task[1][1].pc = "done" /\ task[1][1].ret = "true"
  /\ local[1].verifiedResult.t = "pair"
  /\ sessionMetaCtx[1] = "id2"
  /\ Len(sessionHeaderCtx[1]) = 1
  /\ IsParserSet(sessionHeaderCtx[1][1], "id2")

\* the identity cookie sessionParser.remove writes
IsParserRemove(h) ==
  h.name = sessionInfoKey /\ h.value = [t |-> "empty"] /\ h.maxAge < 0

\* C10: destroy() invoked while a sessionMeta m is bound calls
\* sessionStore.destroy(m) and, on success, leaves no sessionMeta bound,
\* accumulates exactly one sessionParser.remove(m) mutation and returns true.
C10_Destroy ==
  [][\A r \in Reqs : \A i \in 1..MaxTasks :
       /\ (Issued(r, i) /\ task'[r][i].op = "destroy"
             /\ sessionMetaCtx[r] # Undef) =>
            /\ task'[r][i].pc = "awaitStore"
            /\ calls'[r] =
                 Append(calls[r],
                        Call("destroy", "destroy", sessionMetaCtx[r], Undef,
                             task'[r][i].res))
       /\ (Leaves(r, i, "awaitStore") /\ task[r][i].op = "destroy"
             /\ task[r][i].res.t = "true") =>
            /\ task'[r][i].pc = "awaitParser"
            /\ sessionMetaCtx'[r] = Undef
            /\ sessionHeaderCtx'[r] = sessionHeaderCtx[r]
       /\ (Leaves(r, i, "awaitParser") /\ task[r][i].op = "destroy") =>
            /\ task'[r][i].pc = "done"
            /\ task'[r][i].ret = "true"
            /\ sessionMetaCtx'[r] = sessionMetaCtx[r]
            /\ Len(sessionHeaderCtx'[r]) = Len(sessionHeaderCtx[r]) + 1
            /\ SubSeq(sessionHeaderCtx'[r], 1, Len(sessionHeaderCtx[r]))
                 = sessionHeaderCtx[r]
            /\ IsParserRemove(sessionHeaderCtx'[r][Len(sessionHeaderCtx'[r])])
    ]_vars

C10_Witness ==
  /\ pc[1] = "handler"
  /\ Len(task[1]) = 1 /\ task[1][1].op = "destroy"
  /\ task[1][1].pc = "done" /\ task[1][1].ret = "true"
  /\ task[1][1].sessionMeta = "id1"
  /\ sessionMetaCtx[1] = Undef
  /\ Len(sessionHeaderCtx[1]) = 2
  /\ IsParserRemove(sessionHeaderCtx[1][2])

\* C11: saveToStore() invoked while a sessionMeta m is bound calls
\* sessionStore.set(m, the data held in sessionCtx) once, makes no further
\* store call when it resumes, returns the store's result unchanged (true,
\* null or undefined) and leaves the bound sessionMeta as it is.
C11_SaveToStore ==
  [][\A r \in Reqs : \A i \in 1..MaxTasks :
       /\ (Issued(r, i) /\ task'[r][i].op = "saveToStore"
             /\ sessionMetaCtx[r] # Undef) =>
            /\ task'[r][i].pc = "awaitStore"
            /\ task'[r][i].res.t \in {"true", "null", "undefined"}
            /\ calls'[r] =
                 Append(calls[r],
                        Call("set", "saveToStore", sessionMetaCtx[r], sessionCtx[r],
                             task'[r][i].res))
            /\ sessionMetaCtx'[r] = sessionMetaCtx[r]
       /\ (Leaves(r, i, "awaitStore") /\ task[r][i].op = "saveToStore") =>
            /\ task'[r][i].pc = "done"
            /\ task'[r][i].ret = task[r][i].res.t
            /\ calls'[r] = calls[r]
            /\ sessionMetaCtx'[r] = sessionMetaCtx[r]
            /\ sessionHeaderCtx'[r] = sessionHeaderCtx[r]
    ]_vars

C11_Witness ==
  /\ pc[1] = "handler"
  /\ Len(task[1]) = 1 /\ task[1][1].op = "saveToStore"
  /\ task[1][1].pc = "done" /\ task[1][1].ret = "null"
  /\ sessionMetaCtx[1] = "id1" /\ sessionCtx[1] \in HandlerData
  /\ calls[1][Len(calls[1])] =
       Call("set", "saveToStore", "id1", sessionCtx[1], RNull)

\* C12: when the store call made by regenerateId() or destroy() returns null
\* or undefined, the operation returns that same value (never false), the
\* bound sessionMeta stays as it is and no sessionParser.set or
\* sessionParser.remove mutation is accumulated.
C12_FailurePropagates ==
  [][\A r \in Reqs : \A i \in 1..MaxTasks :
       /\ (Issued(r, i) /\ task'[r][i].op \in {"regenerateId", "destroy"}
             /\ task'[r][i].res.t \in {"null", "undefined"}) =>
            /\ sessionMetaCtx'[r] = sessionMetaCtx[r]
            /\ sessionHeaderCtx'[r] = sessionHeaderCtx[r]
       /\ (Leaves(r, i, "awaitStore")
             /\ task[r][i].op \in {"regenerateId", "destroy"}
             /\ task[r][i].res.t \in {"null", "undefined"}) =>
            /\ task'[r][i].pc = "done"
            /\ task'[r][i].ret = task[r][i].res.t
            /\ task'[r][i].ret # "false"
            /\ sessionMetaCtx'[r] = sessionMetaCtx[r]
            /\ sessionHeaderCtx'[r] = sessionHeaderCtx[r]
            /\ calls'[r] = calls[r]
    ]_vars

C12_Witness ==
  /\ pc[1] = "handler"
  /\ Len(task[1]) = 1 /\ task[1][1].op = "destroy"
  /\ task[1][1].pc = "done" /\ task[1][1].ret = "null"
  /\ sessionMetaCtx[1] = "id1"
  /\ Len(sessionHeaderCtx[1]) = 1
  /\ IsParserSet(sessionHeaderCtx[1][1], "id1")

\* C13: regenerateId() invoked while sessionCtx holds undefined, and
\* destroy() or saveToStore() invoked while no sessionMeta is bound, return
\* false at once: no SessionStore call is made, no parser mutation or other
\* header is accumulated and the bound sessionMeta stays as it is.
C13_NoOpReturnsFalse ==
  [][\A r \in Reqs : \A i \in 1..MaxTasks :
       (/\ Issued(r, i)
        /\ \/ task'[r][i].op = "regenerateId" /\ sessionCtx[r] = Undef
           \/ task'[r][i].op \in {"destroy", "saveToStore"}
                /\ sessionMetaCtx[r] = Undef) =>
         /\ task'[r][i].pc = "done"
         /\ task'[r][i].ret = "false"
         /\ calls'[r] = calls[r]
         /\ sessionMetaCtx'[r] = sessionMetaCtx[r]
         /\ sessionHeaderCtx'[r] = sessionHeaderCtx[r]
         /\ nextId' = nextId
    ]_vars

C13_Witness ==
  /\ pc[1] = "handler"
  /\ Len(task[1]) = 1 /\ task[1][1].op = "destroy"
  /\ task[1][1].pc = "done" /\ task[1][1].ret = "false"
  /\ sessionMetaCtx[1] = Undef
  /\ Len(calls[1]) = 1 /\ calls[1][1].op = "get"
  /\ sessionHeaderCtx[1] = <<>>

\* C14: once destroy() has been issued in a request (awaited or not), every
\* saveToStore(), regenerateId() and destroy() invoked afterwards in that
\* request returns false.
C14_AfterDestroyAllFalse ==
  \A r \in Reqs : \A i \in 1..Len(task[r]) : \A j \in 1..(i - 1) :
    (task[r][j].op = "destroy" /\ task[r][i].pc = "done") =>
      task[r][i].ret = "false"

\* the positions of the mutations of cookie name n among hs
PositionsOf(n, hs) == {i \in 1..Len(hs) : hs[i].name = n}

\* the greatest element of a non-empty set of numbers
Greatest(S) == CHOOSE x \in S : \A y \in S : y <= x

\* the cookie named n of response resp
CookieOf(resp, n) == IF n = sessionInfoKey THEN resp.cookies.k ELSE resp.cookies.s

\* C15: in the final response the accumulated mutations are applied in the
\* order they were emitted: for each cookie name the response carries the
\* mutation emitted last for that name (a sessionParser.remove emitted after a
\* sessionParser.set leaves the cookie removed), and no cookie for a name no
\* mutation wrote.
C15_LastMutationWins ==
  [][\A r \in Reqs :
       (pc[r] \in {"awaitNext", "awaitSet"} /\ pc'[r] = "done"
          /\ response'[r].status = 200) =>
         \A n \in {sessionInfoKey, sessionStoreKey} :
           LET at == PositionsOf(n, sessionHeaderCtx[r]) IN
             IF at = {} THEN CookieOf(response'[r], n) = NoCookie
             ELSE CookieOf(response'[r], n) = sessionHeaderCtx[r][Greatest(at)]
    ]_vars

C15_Witness ==
  /\ pc[1] = "done" /\ response[1].status = 200
  /\ Len(sessionHeaderCtx[1]) = 2
  /\ IsParserSet(sessionHeaderCtx[1][1], "id1")
  /\ IsParserRemove(sessionHeaderCtx[1][2])
  /\ IsParserRemove(response[1].cookies.k)

\* sequence a is an initial part of sequence b
IsPrefix(a, b) == Len(a) <= Len(b) /\ SubSeq(b, 1, Len(a)) = a

\* request r arrives in this step (its container is a fresh one)
Arrives(r) == pc[r] # "awaitParserGet" /\ pc'[r] = "awaitParserGet"

\* C16: within one request the accumulator only grows: every step keeps the
\* mutations accumulated so far, in their order, also while lifecycle calls
\* issued without awaiting are in progress; a parser mutation and a mutation
\* of the cookie store is added as one new last element; and every mutation
\* accumulated when the accumulator is read for the merge is in the response
\* (itself, or a later one of the same cookie name).
C16_AccumulatorOnlyGrows ==
  [][\A r \in Reqs :
       /\ ~Arrives(r) => IsPrefix(sessionHeaderCtx[r], sessionHeaderCtx'[r])
       /\ \A i \in 1..Len(task[r]) :
            Leaves(r, i, "awaitParser") =>
              Len(sessionHeaderCtx'[r]) = Len(sessionHeaderCtx[r]) + 1
       /\ (/\ ~Arrives(r) /\ cfg.store = "cookie"
           /\ Len(calls'[r]) = Len(calls[r]) + 1
           /\ calls'[r][Len(calls'[r])].op \in {"set", "destroy"}) =>
            /\ Len(sessionHeaderCtx'[r]) = Len(sessionHeaderCtx[r]) + 1
            /\ sessionHeaderCtx'[r][Len(sessionHeaderCtx'[r])].name = sessionStoreKey
       /\ (pc[r] \in {"awaitNext", "awaitSet"} /\ pc'[r] = "done"
             /\ response'[r].status = 200) =>
            \A i \in 1..Len(sessionHeaderCtx[r]) :
              \E j \in i..Len(sessionHeaderCtx[r]) :
                /\ sessionHeaderCtx[r][j].name = sessionHeaderCtx[r][i].name
                /\ CookieOf(response'[r], sessionHeaderCtx[r][i].name)
                     = sessionHeaderCtx[r][j]
    ]_vars

C16_Witness ==
  /\ pc[1] = "done" /\ response[1].status = 200
  /\ Len(task[1]) = 2 /\ TasksDone(1)
  /\ Len(sessionHeaderCtx[1]) = 4
  /\ IsParserSet(sessionHeaderCtx[1][1], "id1")
  /\ sessionHeaderCtx[1][2].name = sessionStoreKey
  /\ sessionHeaderCtx[1][3].name = sessionStoreKey
  /\ sessionHeaderCtx[1][3].value.t = "enc"
  /\ IsParserRemove(sessionHeaderCtx[1][4])
  /\ response[1].cookies.k = sessionHeaderCtx[1][4]
  /\ response[1].cookies.s = sessionHeaderCtx[1][3]

\* the sessionMetas the store returned to request r: verified or created
MetasOf(r) ==
  {calls[r][i].res.sessionMeta :
     i \in {j \in 1..Len(calls[r]) : calls[r][j].res.t = "pair"}}

\* the sessionMetas sessionStore.create returned to request r
CreatedOf(r) ==
  {calls[r][i].res.sessionMeta :
     i \in {j \in 1..Len(calls[r]) :
              calls[r][j].op = "create" /\ calls[r][j].res.t = "pair"}}

\* an identity-cookie mutation that removes the cookie or sets one of metas
IdentityOf(h, metas) ==
  h.name = sessionInfoKey =>
    (IsParserRemove(h) \/ (h.value.t = "b64json" /\ h.value.v \in metas))

\* C17: with two requests in flight at once through one middleware, the
\* sessionMeta bound for a request and the mutations accumulated for it come
\* from that request's own store calls, never from the other request's: the
\* final response sets the identity cookie only to a meta created for its own
\* request, and the autosave is sessionStore.set(own meta, the data in the
\* request's own sessionCtx).
C17_NoCrossRequestLeak ==
  \A r \in Reqs :
    /\ sessionMetaCtx[r] \in MetasOf(r) \cup {Undef}
    /\ \A i \in 1..Len(sessionHeaderCtx[r]) :
         IdentityOf(sessionHeaderCtx[r][i], CreatedOf(r))
    /\ \A i \in 1..Len(calls[r]) :
         /\ calls[r][i].op \in {"set", "destroy"} => calls[r][i].meta \in MetasOf(r)
         /\ (calls[r][i].op = "set" /\ calls[r][i].by = "middleware") =>
              calls[r][i].data = sessionCtx[r]
    /\ (pc[r] = "done" /\ response[r].status = 200) =>
         \/ response[r].cookies.k = NoCookie
         \/ IdentityOf(response[r].cookies.k, CreatedOf(r))
    /\ \A q \in Reqs \ {r} : CreatedOf(r) \cap CreatedOf(q) = {}

C17_Witness ==
  /\ pc[1] = "handler" /\ sessionMetaCtx[1] = "id1" /\ sessionCtx[1] \in HandlerData
  /\ pc[2] = "done" /\ response[2].status = 200
  /\ sessionMetaCtx[2] = "id2" /\ sessionCtx[2] = CreatedData
  /\ IsParserSet(response[2].cookies.k, "id2")
  /\ calls[2][Len(calls[2])] = Call("set", "middleware", "id2", CreatedData, RTrue)

\* C18: with two requests in flight at once, a lifecycle operation invoked
\* by a request's handler acts on that request: the request its closure
\* passes to sessionStore.create is the caller's own, also when the other
\* request finished its resolution later and assigned the operations anew.
C18_ActsOnOwnRequest ==
  \A r \in Reqs : \A i \in 1..Len(task[r]) :
    /\ (task[r][i].op = "regenerateId" /\ task[r][i].res.t = "pair") =>
         task[r][i].request = r
    /\ task[r][i].sessionMeta \in MetasOf(r) \cup {Undef}

\* a request presenting identifier m together with store cookie h obtains
\* data d from cookieSessionStore.get
RoundTrip(m, d, h) ==
  LET c == [k |-> EncodeMeta(m), s |-> h.value] IN
    \A o \in CookieGet(c, ParserGet(c)) : o.res.t = "obj" /\ o.res.data = d

\* request r is in flight (the clock does not tick while it is)
InFlight(r) == pc[r] \notin {"idle", "done"}

DestroyedTwice(r, i, j) ==
  /\ i < j
  /\ calls[r][i].op = "destroy" /\ calls[r][j].op = "destroy"
  /\ calls[r][i].meta = calls[r][j].meta
  /\ \A k \in (i + 1)..(j - 1) :
       ~(calls[r][k].op = "set" /\ calls[r][k].meta = calls[r][i].meta)

\* C20: for the cookieSessionStore, destroy(m) called twice yields true on
\* the first call and null (not undefined, not an exception) on the second.
C20_DestroyIdempotent ==
  cfg.store = "cookie" =>
    \A r \in Reqs : \A i \in 1..Len(calls[r]) :
      calls[r][i].op = "destroy" =>
        IF \E h \in 1..(i - 1) : DestroyedTwice(r, h, i)
          THEN calls[r][i].res = RNull
          ELSE calls[r][i].res = RTrue

\* ---- the cookie store's expiry and options ---------------------------------
\* request r presents an identifier together with a store cookie encrypted
\* under it
PresentsSession(r) ==
  /\ cfg.store = "cookie"
  /\ cookies[r].k # Absent
  /\ Truthy(ParserGet(cookies[r]))
  /\ Decryptable(ParserGet(cookies[r]), cookies[r].s)

\* request r is past the middleware's sessionStore.get call
PastGet(r) == InFlight(r) /\ pc[r] # "awaitParserGet"

\* a removal of the store cookie
IsStoreRemoval(h) == h.name = sessionStoreKey /\ h.value = Empty /\ h.maxAge < 0

\* C21: cookieSessionStore.get on a store cookie whose embedded _expires is
\* strictly less than the current time invokes destroy (a removal of the
\* store cookie is accumulated) and returns the soft failure null, never the
\* stale data; a session written with a time to live of -1000 fails on the
\* very next get.
C21_ExpiredIsDestroyed ==
  \A r \in Reqs :
    (PresentsSession(r) /\ PastGet(r) /\ cookies[r].s.expires < now) =>
      /\ calls[r][1] =
           Call("get", "middleware", ParserGet(cookies[r]), Undef, RNull)
      /\ local[r].verifiedResult = RNull
      /\ Len(sessionHeaderCtx[r]) >= 1
      /\ IsStoreRemoval(sessionHeaderCtx[r][1])
      /\ Len(calls[r]) >= 2 => calls[r][2].op = "create"

C21_Witness ==
  /\ cfg.time = NumTime(ExpiredTTL) /\ now = 0
  /\ pc[1] = "awaitGet" /\ PresentsSession(1)
  /\ cookies[1].s.expires = ExpiredTTL
  /\ local[1].verifiedResult = RNull
  /\ sessionHeaderCtx[1] = <<Cookie(sessionStoreKey, Empty, 0 - 1, NoExpires, TRUE)>>

\* C22: with rolling: true and a time to live T, every successful get re-sets
\* the session with _expires = (the time of that get) + T: a get of a cookie
\* that has not expired succeeds, returns the refreshed _expires and
\* accumulates a store cookie holding the same data with that _expires, so
\* that of two gets less than T apart both succeed and the expiry after the
\* second is now2 + T, not now1 + T.
C22_RollingRefresh ==
  \A r \in Reqs :
    (PresentsSession(r) /\ PastGet(r) /\ cfg.rolling
     /\ cookies[r].s.expires >= now) =>
      /\ local[r].verifiedResult =
           RObj(cookies[r].s.data, now + maxAge)
      /\ Len(sessionHeaderCtx[r]) >= 1
      /\ sessionHeaderCtx[r][1].name = sessionStoreKey
      /\ sessionHeaderCtx[r][1].value =
           Encrypt(ParserGet(cookies[r]), cookies[r].s.data, now + maxAge)

\* the second of two gets: the cookie presented was written by a get one
\* tick after the session was created, and is presented one tick later
C22_Witness ==
  /\ cfg.rolling /\ cfg.time = NumTime(LongTTL)
  /\ now = 2 * TickStep
  /\ pc[1] = "awaitGet" /\ PresentsSession(1)
  /\ cookies[1].s.expires = TickStep + LongTTL
  /\ local[1].verifiedResult.t = "obj"
  /\ sessionHeaderCtx[1][1].value.expires = 2 * TickStep + LongTTL

\* what expiresOptions.time() returns when called at the clock's time
TimeResult == IF now = 0 THEN cfg.time.v ELSE cfg.time.w

\* the mutation the set call awaited by request r has emitted
SetMutation(r) == sessionHeaderCtx[r][Len(sessionHeaderCtx[r])]

\* request r awaits a set call of the cookie store
AwaitsCookieSet(r) ==
  cfg.store = "cookie" /\ pc[r] = "awaitSet" /\ Len(sessionHeaderCtx[r]) >= 1

\* C23: when expiresOptions.time is a zero-argument function it is evaluated
\* afresh for every store operation that needs the time to live: a set made
\* after the function's result has changed uses the new value for the
\* embedded _expires and for the cookie's maxAge.
C23_TimeEvaluatedPerSet ==
  \A r \in Reqs :
    (AwaitsCookieSet(r) /\ cfg.time.t = "function") =>
      /\ SetMutation(r).maxAge = TimeResult
      /\ SetMutation(r).value.expires = now + TimeResult

\* the times to live the options name: the number configured, else a result
\* of the function configured, else the configured cookieOptions.maxAge
ConfiguredTTL ==
  IF cfg.time.t = "number" THEN {cfg.time.v}
  ELSE IF cfg.time.t = "function" THEN {cfg.time.v, cfg.time.w}
  ELSE {cfg.cookieMaxAge}

\* C24: the time to live the cookie store uses is the explicit numeric
\* expiresOptions.time whenever one is configured (for every number, 0 and
\* negative numbers included), otherwise the result of the
\* expiresOptions.time function when one is configured, otherwise the
\* configured default max-age.
C24_TimeToLivePrecedence ==
  \A r \in Reqs :
    AwaitsCookieSet(r) =>
      \E ttl \in ConfiguredTTL :
        /\ SetMutation(r).maxAge = ttl
        /\ SetMutation(r).value.expires = now + ttl

\* C25: every store cookie mutation emitted by cookieSessionStore.set carries
\* the configured cookie options unchanged (here httpOnly, and no expires)
\* except maxAge, which equals the resolved time to live even when
\* cookieOptions.maxAge is configured with another value.
C25_SetOverridesMaxAge ==
  cfg.store = "cookie" =>
    \A r \in Reqs : \A i \in 1..Len(sessionHeaderCtx[r]) :
      LET h == sessionHeaderCtx[r][i] IN
        (h.name = sessionStoreKey /\ h.value # Empty) =>
          /\ h.httpOnly = cfg.httpOnly
          /\ h.expires = NoExpires
          /\ h.maxAge = maxAge

C25_Witness ==
  /\ cfg.time = NumTime(LongTTL) /\ cfg.cookieMaxAge = QuarterHour
  /\ AwaitsCookieSet(1)
  /\ SetMutation(1).maxAge = LongTTL
  /\ SetMutation(1).httpOnly = cfg.httpOnly

\* ---- the cookie parser ----------------------------------------------------------
\* cookie value c was not made by the codec in place
Undecodable(c) == c # Absent /\ c.t # Encoded(cfg.codec)

\* C26: cookieSessionParser.get never throws: for a request without the
\* session cookie and for any cookie value that cannot be decoded or parsed,
\* under the base64 codec or a custom codec, it returns the absent marker
\* null.
C26_ParserGetNeverThrows ==
  \A r \in Reqs :
    pc[r] # "idle" =>
      /\ response[r] # ErrorResponse(500, "thrown")
      /\ (cookies[r].k = Absent \/ Undecodable(cookies[r].k)) =>
           local[r].unverifiedSessionInfo = Null

\* the identifiers minted so far
Minted == {Ids[i] : i \in 1..nextId}

C28_AbsoluteExpiry ==
  \A r \in Reqs : \A i \in 1..Len(sessionHeaderCtx[r]) :
    LET h == sessionHeaderCtx[r][i] IN
      (InFlight(r) /\ h.name = sessionInfoKey /\ h.value # Empty
       /\ ExpiresTimeOf(h.value.v) # 0) =>
        /\ h.expires = now + ExpiresTimeOf(h.value.v)
        /\ h.maxAge # DefaultMaxAge

\* mutation h clears the cookie that Parser.set writes: the same name, an
\* empty value and an expiry in the past
ClearsIdentity(h) == h.name = sessionInfoKey /\ h.value = Empty /\ h.maxAge < 0

\* C29: cookieSessionParser.remove produces, for any SessionMeta, a mutation
\* on the cookie name that Parser.set writes, with an empty value and an
\* expiry in the past, so that merged after a Parser.set it leaves the
\* identity cookie cleared.
C29_RemoveClearsIdentity ==
  \A r \in Reqs :
    /\ \A m \in Minted \cup {ForgedId} :
         /\ ParserRemove(m).name = ParserSet(m).name
         /\ ClearsIdentity(ParserRemove(m))
         /\ ClearsIdentity(
              Merge(<<ParserSet(m), ParserRemove(m)>>, HandlerResponse).cookies.k)
    /\ \A i \in 1..Len(task[r]) :
         (task[r][i].op = "destroy" /\ task[r][i].pc = "done"
          /\ task[r][i].ret = "true") =>
           \E j \in 1..Len(sessionHeaderCtx[r]) :
             /\ ClearsIdentity(sessionHeaderCtx[r][j])
             /\ \A k \in 1..(j - 1) :
                  sessionHeaderCtx[r][k].name = sessionInfoKey =>
                    ClearsIdentity(
                      Merge(<<sessionHeaderCtx[r][k], sessionHeaderCtx[r][j]>>,
                            HandlerResponse).cookies.k)

C29_Witness ==
  /\ pc[1] = "done" /\ response[1].status = 200
  /\ Len(sessionHeaderCtx[1]) >= 2
  /\ sessionHeaderCtx[1][1] = ParserSet(Ids[1])
  /\ \E j \in 2..Len(sessionHeaderCtx[1]) :
       sessionHeaderCtx[1][j] = ParserRemove(Ids[1])
  /\ ClearsIdentity(response[1].cookies.k)
  /\ jar.k = Empty

\* C30: cookieSessionStore.get returns the soft failure null, never throws
\* and never returns data, when the store cookie is missing and for every
\* store cookie value that fails to decrypt or parse, including every value
\* obtained by altering one byte of a valid encrypted cookie.
C30_TamperedIsRejected ==
  \A r \in Reqs :
    (cfg.store = "cookie" /\ PastGet(r) /\ Len(calls[r]) >= 1
     /\ calls[r][1].op = "get" /\ ~PresentsSession(r)) =>
      /\ calls[r][1].res = RNull
      /\ local[r].verifiedResult = RNull

\* ---- the lifecycle operations ------------------------------------------------
\* C31: before any request has passed through a middleware configured with
\* a given SessionContext, calling its saveToStore, regenerateId or destroy
\* rejects with an '... is not implemented yet' error instead of returning a
\* value: a call made while no closure is installed ended in the exception,
\* made no store call and bound nothing.
C31_UnattachedThrows ==
  /\ \A r \in Reqs : \A i \in 1..Len(task[r]) :
       task[r][i].request = 0 =>
         /\ task[r][i].ret = "thrown"
         /\ task[r][i].pc = "done"
         /\ task[r][i].res = RNone
  /\ opsBound = 0 =>
       \A r \in Reqs :
         /\ \A i \in 1..Len(task[r]) : task[r][i].request = 0
         /\ \A i \in 1..Len(calls[r]) : calls[r][i].by = "middleware"
         /\ seen[r] = "none"

C31_Witness ==
  /\ opsBound = 0
  /\ Len(task[2]) = 1
  /\ task[2][1].op = "saveToStore"
  /\ task[2][1].ret = "thrown"

\* a request's positions, in the order of the middleware's code
Rank(p) ==
  CASE p = "idle" -> 0
    [] p = "awaitParserGet" -> 1
    [] p = "awaitGet" -> 2
    [] p = "awaitCreate" -> 3
    [] p = "awaitParserSet" -> 4
    [] p = "handler" -> 5
    [] p = "awaitNext" -> 6
    [] p = "awaitSet" -> 7
    [] p = "done" -> 8

\* the store calls the middleware itself has made for request r
MiddlewareCalls(r) ==
  LET own == SelectSeq(calls[r], LAMBDA k : k.by = "middleware")
  IN [i \in 1..Len(own) |-> own[i].op]

\* Store.get and/or Store.create, then the optional autosave Store.set
CallsInOrder(r) ==
  /\ MiddlewareCalls(r) \in
       {<<>>, <<"get">>, <<"create">>, <<"get", "create">>,
        <<"get", "set">>, <<"create", "set">>, <<"get", "create", "set">>}
  /\ (MiddlewareCalls(r) # <<>> /\ pc[r] \notin {"idle", "done"}) =>
       Rank(pc[r]) >= 2
  /\ (\E i \in 1..Len(MiddlewareCalls(r)) : MiddlewareCalls(r)[i] = "set") =>
       Rank(pc[r]) >= 7

\* a step moves request r forward only, invokes the handler at most once
\* and writes the response when, and only when, the request ends
OrderStep(r) ==
  \/ pc'[r] = pc[r] /\ response'[r] = response[r] /\ seen'[r] = seen[r]
  \/ Arrives(r) /\ pc[r] \in {"idle", "done"} /\ response'[r] = NoResponse
  \/ /\ pc[r] \notin {"idle", "done"}
     /\ Rank(pc[r]) < Rank(pc'[r])
     /\ seen'[r] # seen[r] => pc'[r] = "handler"
     /\ IF pc'[r] = "done" THEN response[r] = NoResponse /\ response'[r] # NoResponse
        ELSE response'[r] = response[r]

\* the model's store cannot mint another identifier, so a create call need
\* not return
Exhausted == nextId = MaxIds

\* C32: for every request the steps occur in the order Parser.get, then
\* Store.get and/or Store.create, then at most one invocation of the
\* downstream handler, then the optional autosave Store.set, then a single
\* merge; and provided every Store and Parser call returns, the request
\* eventually ends with exactly one response.
C32_OrderAndCompletion ==
  /\ [][\A r \in Reqs : OrderStep(r)]_vars
  /\ [](\A r \in Reqs : CallsInOrder(r))
  /\ \A r \in Reqs :
       (pc[r] = "awaitParserGet") ~> (pc[r] = "done" \/ Exhausted)

C32_Witness ==
  /\ pc[1] = "done" /\ response[1].status = 200
  /\ MiddlewareCalls(1) = <<"get", "create", "set">>
  /\ seen[1] = CreatedData
  /\ ~Exhausted

\* the set and destroy calls of request r
Writes(r) == SelectSeq(calls[r], LAMBDA k : k.op \in {"set", "destroy"})

\* C34: a successful regenerateId() changes only the bound SessionMeta and
\* the accumulator: in each of its steps the data held in SessionContext is
\* unchanged (the data returned by Store.create is discarded), and neither
\* Store.destroy nor Store.set is invoked, in particular not for the
\* previously bound SessionMeta; nothing else of the request changes.
C34_RegenerateIdFrame ==
  [][\A r \in Reqs : \A i \in 1..Len(task'[r]) :
       (/\ task'[r][i].op = "regenerateId"
        /\ task'[r][i].res.t = "pair"
        /\ Issued(r, i) \/ Leaves(r, i, "awaitStore")
             \/ Leaves(r, i, "awaitParser")) =>
         /\ sessionCtx'[r] = sessionCtx[r]
         /\ Writes(r)' = Writes(r)
         /\ \A k \in 1..Len(calls'[r]) :
              calls'[r][k].by = "regenerateId" => calls'[r][k].op = "create"
         /\ UNCHANGED <<jar, pc, cookies, local, seen, response>>
         /\ Issued(r, i) => UNCHANGED sessionMetaCtx
         /\ ~Issued(r, i) => UNCHANGED <<calls, nextId>>
         /\ Leaves(r, i, "awaitStore") => UNCHANGED sessionHeaderCtx
         /\ Leaves(r, i, "awaitParser") => UNCHANGED sessionMetaCtx
    ]_vars

\* a regenerateId() that returned true in a session whose data the handler
\* had written: the data is still the handler's, not that of Store.create
C34_Witness ==
  /\ pc[1] = "handler"
  /\ \E i \in 1..Len(task[1]) :
       /\ task[1][i].op = "regenerateId" /\ task[1][i].ret = "true"
       /\ task[1][i].res.sessionData = CreatedData
       /\ sessionMetaCtx[1] = task[1][i].res.sessionMeta
  /\ sessionCtx[1] \in HandlerData
  /\ calls[1][1].op = "create"
  /\ calls[1][1].res.sessionMeta # sessionMetaCtx[1]
  /\ Writes(1) = <<>>

\* the sessionMeta the middleware bound when it resolved request r
ResolvedMeta(r) ==
  IF local[r].createResult # RNone THEN FieldSessionMeta(local[r].createResult)
  ELSE FieldSessionMeta(local[r].verifiedResult)

\* lifecycle call i of request r rebound or unbound the sessionMeta
Rebinds(r, i) ==
  /\ task[r][i].op \in {"regenerateId", "destroy"}
  /\ task[r][i].pc = "done" /\ task[r][i].ret = "true"

\* the last lifecycle call of request r that changed the binding was a
\* regenerateId, call i
LastRebindIsRegenerate(r, i) ==
  /\ i \in 1..Len(task[r])
  /\ Rebinds(r, i) /\ task[r][i].op = "regenerateId"
  /\ \A j \in (i + 1)..Len(task[r]) : ~Rebinds(r, j)

\* the middleware's autosave of request r has been issued
Autosaved(r) ==
  /\ pc[r] \in {"awaitSet", "done"}
  /\ calls[r] # <<>>
  /\ calls[r][Len(calls[r])].by = "middleware"
  /\ calls[r][Len(calls[r])].op = "set"

\* C35: the autosave writes under the sessionMeta bound at completion: once
\* a regenerateId() of the handler has succeeded (and no destroy() after it),
\* an autoSave middleware calls sessionStore.set with the regenerated meta,
\* which is the bound one, and not with the meta the request was resolved to.
C35_AutosaveUsesBoundMeta ==
  \A r \in Reqs : \A i \in 1..SeqTasks :
    (LastRebindIsRegenerate(r, i) /\ pc[r] \in {"awaitSet", "done"}) =>
      /\ cfg.autoSave => Autosaved(r)
      /\ Autosaved(r) =>
           /\ calls[r][Len(calls[r])].meta = task[r][i].sessionMeta
           /\ calls[r][Len(calls[r])].meta = sessionMetaCtx[r]
           /\ calls[r][Len(calls[r])].meta # ResolvedMeta(r)

C35_Witness ==
  /\ pc[1] = "done" /\ response[1].status = 200
  /\ Autosaved(1)
  /\ LastRebindIsRegenerate(1, 1)
  /\ ResolvedMeta(1) = "id1"
  /\ calls[1][Len(calls[1])].meta = "id2"
  /\ response[1].cookies.k # NoCookie

\* the sessionMeta values a store can return
Metas == {Ids[i] : i \in 1..Len(Ids)} \cup {ForgedId}

\* request r is between two awaited lifecycle calls of its handler, or past
\* the handler
BetweenCalls(r) ==
  /\ pc[r] \in {"handler", "awaitNext", "awaitSet", "done"}
  /\ TasksDone(r)

\* C36: under a handler that awaits each lifecycle call, between calls and
\* at completion, if an identity mutation has been accumulated then the last
\* one is sessionParser.set(m) exactly when m is the bound sessionMeta, and is
\* sessionParser.remove exactly when no sessionMeta is bound.
C36_BoundMetaMatchesLastMutation ==
  \A r \in Reqs :
    (BetweenCalls(r) /\ IdentityMutations(sessionHeaderCtx[r]) # <<>>) =>
      LET ms == IdentityMutations(sessionHeaderCtx[r])
          last == ms[Len(ms)]
      IN /\ \A m \in Metas : IsParserSet(last, m) <=> sessionMetaCtx[r] = m
         /\ IsParserRemove(last) <=> sessionMetaCtx[r] = Undef

C36_Witness ==
  /\ pc[1] = "done" /\ response[1].status = 200
  /\ Len(task[1]) = 2
  /\ task[1][1].op = "regenerateId" /\ task[1][1].ret = "true"
  /\ task[1][2].op = "destroy" /\ task[1][2].ret = "true"
  /\ sessionMetaCtx[1] = Undef
  /\ Len(IdentityMutations(sessionHeaderCtx[1])) = 3
  /\ IsParserRemove(sessionHeaderCtx[1][Len(sessionHeaderCtx[1])])

\* the bound sessionMeta of request r agrees with the last identity mutation
AgreesWithLastMutation(r) ==
  LET ms == IdentityMutations(sessionHeaderCtx[r]) IN
    ms # <<>> =>
      /\ \A m \in Metas : IsParserSet(ms[Len(ms)], m) <=> sessionMetaCtx[r] = m
      /\ IsParserRemove(ms[Len(ms)]) <=> sessionMetaCtx[r] = Undef

\* C37: when destroy() and regenerateId() are issued without awaiting,
\* destroy() resuming after sessionStore.destroy unbinds only the sessionMeta
\* it passed to the store: a sessionMeta bound meanwhile by regenerateId
\* stays bound, and once the calls are over and the handler has returned the
\* bound sessionMeta agrees with the last accumulated identity mutation.
C37_DestroyUnbindsOwnMeta ==
  /\ [][\A r \in Reqs : \A i \in 1..SeqTasks :
          (/\ Leaves(r, i, "awaitStore") /\ task[r][i].op = "destroy"
           /\ sessionMetaCtx[r] # task[r][i].sessionMeta) =>
             sessionMetaCtx'[r] = sessionMetaCtx[r]]_vars
  /\ [](\A r \in Reqs :
          (pc[r] \in {"awaitNext", "awaitSet", "done"} /\ TasksDone(r)) =>
             AgreesWithLastMutation(r))

\* request r was answered with the middleware's own error response
OwnErrorResponse(r) ==
  /\ pc[r] = "done"
  /\ \/ response[r].status = 500 /\ response[r].body = "Internal Server Error"
     \/ response[r].status = 401 /\ response[r].body = "SessionStore Set Failed"

\* C38: a request answered with the middleware's own error response (500
\* when resolution or the autosave fails hard, 401 when the autosave fails
\* softly) gets none of the mutations accumulated during the request, the
\* sessionParser.set of a created or regenerated session included: the
\* response sets no cookie and the client's cookies stay as they were.
C38_ErrorResponseCarriesNoMutation ==
  [][\A r \in Reqs :
       (pc[r] # "done" /\ pc'[r] = "done" /\ response'[r].status # 200) =>
          /\ OwnErrorResponse(r)'
          /\ response'[r].cookies = NoCookies
          /\ jar' = jar
          /\ sessionHeaderCtx'[r] = sessionHeaderCtx[r]
    ]_vars

C38_Witness ==
  /\ OwnErrorResponse(1) /\ response[1].status = 401
  /\ local[1].createResult.t = "pair"
  /\ Len(task[1]) = 1 /\ task[1][1].op = "regenerateId" /\ task[1][1].ret = "true"
  /\ Len(IdentityMutations(sessionHeaderCtx[1])) = 2
  /\ response[1].cookies = NoCookies

\* C39: when the autosave succeeds or is skipped the handler's response is
\* merged after the accumulated mutations: the final status and body are the
\* handler's, a cookie name the handler's response writes keeps the
\* handler's value, and every other name carries its last accumulated
\* mutation.
C39_HandlerResponseMergedLast ==
  \A r \in Reqs :
    (pc[r] = "done" /\ response[r].status = 200) =>
      /\ response[r].status = HandlerResponse.status
      /\ response[r].body = HandlerResponse.body
      /\ response[r].cookies.k =
           IF HandlerResponse.cookies.k # NoCookie THEN HandlerResponse.cookies.k
           ELSE LastOf(sessionInfoKey, sessionHeaderCtx[r])
      /\ response[r].cookies.s =
           IF HandlerResponse.cookies.s # NoCookie THEN HandlerResponse.cookies.s
           ELSE LastOf(sessionStoreKey, sessionHeaderCtx[r])

C39_Witness ==
  /\ pc[1] = "done" /\ response[1].status = 200
  /\ cfg.handlerCookie /\ cfg.autoSave
  /\ IdentityMutations(sessionHeaderCtx[1]) # <<>>
  /\ IsParserSet(LastOf(sessionInfoKey, sessionHeaderCtx[1]), "id1")
  /\ response[1].cookies.k = HandlerCookie
  /\ response[1].cookies.s # NoCookie
  /\ jar.k = Garbage

\* sessionStore.set succeeded for meta m in request r, after the create of
\* the same request that returned m
SetRanForCreated(r, m) ==
  \E i, j \in 1..Len(calls[r]) :
    /\ j < i
    /\ calls[r][j].op = "create" /\ FieldSessionMeta(calls[r][j].res) = m
    /\ calls[r][i].op = "set" /\ calls[r][i].meta = m /\ calls[r][i].res = RTrue

\* request r presented the identity of session m with a store cookie the
\* store had written for m, and a rolling get wrote it again
RollingRefreshed(r, m) ==
  /\ cfg.rolling
  /\ local[r].unverifiedSessionInfo = m
  /\ Decryptable(m, cookies[r].s)

\* request r presented an identity to the cookie store
PresentsIdentity(r) ==
  /\ cfg.store = "cookie"
  /\ pc[r] \notin {"idle", "awaitParserGet"}
  /\ Truthy(local[r].unverifiedSessionInfo)

\* C40: cookieSessionStore.create writes no response mutation, so the client
\* receives a store cookie for a session only from a request in which
\* sessionStore.set ran for the session that request created (or from a
\* rolling get of a cookie it already had); a get for session m finds it only
\* if the request carries a store cookie written for m, and otherwise
\* resolves to null, after which the middleware creates a session under a
\* new identifier and emits sessionParser.set for it.
C40_CreateAloneIsNotRetrievable ==
  /\ [][\A r \in Reqs :
          /\ (/\ cfg.store = "cookie"
              /\ Len(calls'[r]) = Len(calls[r]) + 1
              /\ calls'[r][Len(calls'[r])].op = "create") =>
                sessionHeaderCtx'[r] = sessionHeaderCtx[r]
          /\ (/\ cfg.store = "cookie"
              /\ pc[r] # "done" /\ pc'[r] = "done"
              /\ jar'.s # jar.s /\ jar'.s.t = "enc") =>
                \/ SetRanForCreated(r, jar'.s.id)
                \/ RollingRefreshed(r, jar'.s.id)
     ]_vars
  /\ [](\A r \in Reqs :
          PresentsIdentity(r) =>
            LET m == local[r].unverifiedSessionInfo IN
              /\ local[r].verifiedResult.t = "obj" => Decryptable(m, cookies[r].s)
              /\ ~Decryptable(m, cookies[r].s) =>
                   /\ local[r].verifiedResult = RNull
                   /\ pc[r] # "awaitGet" =>
                        /\ local[r].createResult.t = "pair"
                        /\ local[r].createResult.sessionMeta # m
                   /\ pc[r] \in {"handler", "awaitNext", "awaitSet", "done"} =>
                        /\ sessionHeaderCtx[r] # <<>>
                        /\ IsParserSet(sessionHeaderCtx[r][1],
                                       local[r].createResult.sessionMeta))

C40_Witness ==
  /\ cfg.store = "cookie" /\ ~cfg.autoSave
  /\ pc[1] = "handler"
  /\ jar = [k |-> EncodeMeta("id1"), s |-> Absent]
  /\ cookies[1] = jar
  /\ local[1].unverifiedSessionInfo = "id1"
  /\ local[1].verifiedResult = RNull
  /\ local[1].createResult.t = "pair"
  /\ local[1].createResult.sessionMeta = "id2"
  /\ sessionMetaCtx[1] = "id2"

\* the other of the two nested instances
Other(r) == 3 - r

\* this step is the arrival of a request at the outer instance
NestedArrives == pc[1] \in {"idle", "done"} /\ pc'[1] = "awaitParserGet"

\* instance r has emitted an identity mutation: it created a session, or a
\* regenerateId or destroy on its sessionCtx returned true
Emitted(r) ==
  \/ local[r].createResult.t = "pair"
  \/ \E i \in 1..Len(task[r]) : Rebinds(r, i)

\* the identity cookie instance r's last mutation writes
OwnCookie(r) ==
  IF ~Emitted(r) THEN NoCookie
  ELSE IF sessionMetaCtx[r] = Undef
    THEN (IF r = 1 THEN ParserRemove(Undef) ELSE InnerParserRemove(Undef))
  ELSE (IF r = 1 THEN ParserSet(sessionMetaCtx[r])
        ELSE InnerParserSet(sessionMetaCtx[r]))

\* both instances have processed the request
BothProcessed == pc[1] = "done" /\ pc[2] = "done"

\* the outer instance's autosave succeeded or was skipped: it returned the
\* merged response, not an error response of its own
OuterMerged == ~Falsy(local[1].setResult)

\* the lifecycle operations and the autosave of each instance read and
\* write that instance's bound sessionMeta only
OwnMetaOnly ==
  \A r \in Reqs :
    /\ ((task'[r] # task[r] \/ calls'[r] # calls[r]) /\ ~NestedArrives) =>
         /\ sessionMetaCtx'[Other(r)] = sessionMetaCtx[Other(r)]
         /\ sessionCtx'[Other(r)] = sessionCtx[Other(r)]
         /\ task'[Other(r)] = task[Other(r)]
         /\ calls'[Other(r)] = calls[Other(r)]
    /\ (/\ Len(calls'[r]) = Len(calls[r]) + 1
        /\ calls'[r][Len(calls'[r])].op \in {"set", "destroy"}) =>
         /\ sessionMetaCtx[r] # Undef
         /\ calls'[r][Len(calls'[r])].meta = sessionMetaCtx[r]
    /\ (sessionMetaCtx'[r] # sessionMetaCtx[r] /\ ~NestedArrives) =>
         /\ pc'[r] # pc[r] \/ task'[r] # task[r]
         /\ pc'[Other(r)] = pc[Other(r)] /\ task'[Other(r)] = task[Other(r)]

\* the final response carries the last identity mutation of each instance
CarriesBoth ==
  /\ response[1].cookies.k = OwnCookie(1)
  /\ response[1].cookies.s = OwnCookie(2)

====
